---- MODULE Spec2Model ----
(***************************************************************************)
(* A model of the item-browsing core of all-in-one-clipboard:              *)
(*   - CategorizedItemViewer (utilityCategorizedItemViewer.js): category   *)
(*     tabs, search state machine, debounced filtering, chunked rendering  *)
(*   - MasonryLayout (utilityMasonryLayout.js): shortest-column packing    *)
(* Strings are sequences of one-character strings, so that lower-casing,   *)
(* trimming, substring search and code-unit ordering are computed.         *)
(***************************************************************************)
EXTENDS Integers, Sequences, FiniteSets, TLC

----------------------------------------------------------------------------
(* Bounds of the model *)

\* longest raw text typed into the search entry
MaxSearchLen == 2
\* idle callbacks that may be pending when a handler starts a render pass
MaxIdle == 1
\* size limit of the recents store (a setting)
MaxRecents == 1
\* grid buttons (from the start of the grid) the user activates
MaxClick == 2
\* longest dataset of the category-derivation specification
MaxData == 3
\* most items a masonry layout is given, pending ones included
MaxItems == 3
\* longest list handed to one addItems call
MaxBatch == 2
\* time that passes in one Tick, in ms
TickMs == 125

----------------------------------------------------------------------------
(* Program constants *)

RECENTS_TAB_ID == <<"##RECENTS##">>
\* Debouncer(() => this._applyFiltersAndRenderGrid(), 250)
DebounceMs == 250
itemsPerChunk == 36

\* JavaScript null (an _activeCategory that was never set)
Null == <<"null">>

----------------------------------------------------------------------------
(* Strings *)

Min(a, b) == IF a <= b THEN a ELSE b
Max(a, b) == IF a >= b THEN a ELSE b

\* UTF-16 code units of the characters the model uses
CharCode(c) ==
    CASE c = " " -> 32
      [] c = "1" -> 49
      [] c = "2" -> 50
      [] c = "A" -> 65
      [] c = "B" -> 66
      [] c = "C" -> 67
      [] c = "a" -> 97
      [] c = "b" -> 98
      [] c = "c" -> 99

LowerChar(c) ==
    CASE c = "A" -> "a"
      [] c = "B" -> "b"
      [] c = "C" -> "c"
      [] OTHER -> c

\* String.prototype.toLowerCase
ToLowerCase(s) == [i \in DOMAIN s |-> LowerChar(s[i])]

RECURSIVE TrimStart(_)
TrimStart(s) == IF s # <<>> /\ Head(s) = " " THEN TrimStart(Tail(s)) ELSE s

RECURSIVE TrimEnd(_)
TrimEnd(s) ==
    IF s # <<>> /\ s[Len(s)] = " " THEN TrimEnd(SubSeq(s, 1, Len(s) - 1)) ELSE s

\* String.prototype.trim
Trim(s) == TrimEnd(TrimStart(s))

\* String.prototype.includes
Includes(hay, needle) ==
    \E i \in 0..(Len(hay) - Len(needle)) : SubSeq(hay, i + 1, i + Len(needle)) = needle

\* the default comparison of Array.prototype.sort: by code units, a proper
\* prefix first
RECURSIVE StrLess(_, _)
StrLess(s, t) ==
    IF t = <<>> THEN FALSE
    ELSE IF s = <<>> THEN TRUE
    ELSE IF CharCode(Head(s)) # CharCode(Head(t))
         THEN CharCode(Head(s)) < CharCode(Head(t))
         ELSE StrLess(Tail(s), Tail(t))

\* insertion of x into a sorted sequence, after the elements not greater
RECURSIVE InsertSorted(_, _)
InsertSorted(x, seq) ==
    IF seq = <<>> THEN <<x>>
    ELSE IF StrLess(x, Head(seq)) THEN <<x>> \o seq
    ELSE <<Head(seq)>> \o InsertSorted(x, Tail(seq))

\* Array.prototype.sort() with no comparator, on strings
RECURSIVE Sort(_)
Sort(seq) == IF seq = <<>> THEN <<>> ELSE InsertSorted(Head(seq), Sort(Tail(seq)))

\* Array.prototype.filter, giving the positions (1..n, in increasing order)
\* of the elements the test accepts
FilterIdx(n, Keep(_)) == SelectSeq([i \in 1..n |-> i], Keep)

----------------------------------------------------------------------------
(* Datasets.  An item is [cat, name]; an item is identified by its position *)
(* in the dataset.  The empty string stands for a falsy category attribute  *)
(* (missing or empty).                                                      *)

cat1 == <<"c", "1">>
cat2 == <<"c", "2">>
NoCat == <<>>

Item(c, n) == [cat |-> c, name |-> n]

\* {A:cat1, B:cat1, C:cat2}
ScenarioData == <<Item(cat1, <<"A">>), Item(cat1, <<"B">>), Item(cat2, <<"C">>)>>
\* categories out of code-unit order, one item without a category
MixedData == <<Item(cat2, <<"A">>), Item(NoCat, <<"C">>), Item(cat1, <<"C">>)>>
\* a dataset whose lists take 3 chunks and exactly 1 chunk: 73 items of
\* cat1, 36 named C and 37 named A
BigLen == 2 * itemsPerChunk + 1
BigData ==
    [i \in 1..BigLen |->
        Item(cat1, IF i <= itemsPerChunk THEN <<"C">> ELSE <<"A">>)]

SmallDataSets == {<<>>, ScenarioData, MixedData}

\* the datasets of the category-derivation specification: every sequence of
\* up to MaxData items over these categories
DataCats == {NoCat, <<"c">>, cat1, cat2, <<"C">>}
AllDataSets ==
    UNION {[1..n -> {Item(c, <<"A">>) : c \in DataCats}] : n \in 0..MaxData}

\* what the user can type: a raw text of up to MaxSearchLen characters
SearchChars == {"c", "C", " "}
RawTexts == UNION {[1..n -> SearchChars] : n \in 0..MaxSearchLen}

\* searchFilterFn of the tabs: some keyword, lower-cased, includes the text
SearchFilterFn(item, searchText) ==
    Includes(ToLowerCase(item.name), ToLowerCase(searchText))

----------------------------------------------------------------------------
(* State of one CategorizedItemViewer, of its Debouncer, of the recents     *)
(* store it owns and of the GLib sources it has scheduled.                  *)

VARIABLES
    dataset,                    \* what the parser yields for the JSON file
    sortCategories,             \* config.sortCategories
    mainData,                   \* _mainData (<<>> before the load)
    categoriesFromJSON,         \* _categoriesFromJSON
    allDisplayableTabs,         \* _allDisplayableTabs
    checkedTabs,                \* tabs whose button has the 'checked' pseudo class
    activeCategory,             \* _activeCategory
    lastActiveTabBeforeSearch,  \* _lastActiveTabBeforeSearch
    isLoading,                  \* _isLoading
    isContentLoaded,            \* _isContentLoaded
    currentSearchText,          \* _currentSearchText
    filteredData,               \* _filteredData, as positions in the dataset
    gridAllButtons,             \* _gridAllButtons: [item, session] per button
    renderSession,              \* _renderSession: 0 before the first render
    idleChunks,                 \* pending idle callbacks of _renderGridChunk
    setActiveCategoryTimeoutId, \* _setActiveCategoryTimeoutId (0: none)
    focusTimers,                \* pending focus-restore timeout sources
    debounceTimer,              \* ms left on the debouncer's timer (-1: none)
    debouncerDestroyed,         \* the debouncer was destroyed
    contentArea,                \* what _contentArea shows
    recents,                    \* the recents store, most recent first
    onStage,                    \* get_stage() is not null
    itemsPerRow,                \* _config.itemsPerRow
    gridFocus,                  \* the key focus: grid button k, SearchEntry or 0
    configValid,                \* the config has every required key
    trace,                      \* what the handler dispatched last did, in order
    tracing,                    \* whether trace is kept (fixed per specification)
    \* history variables
    gridKey,                    \* the key _onGridKeyPress handled since the
                                \* grid was last emptied
    gridFocusBefore,            \* the key focus as that key was pressed
    gridKeyResult,              \* what _onGridKeyPress returned
    chunkLog,                   \* <<start, end>> of the chunks of this session
    staleRan,                   \* a superseded chunk callback has run
    staleAttached,              \* buttons attached to a superseded session's grid
    sinceTrigger,               \* ms since the last trigger() (at most DebounceMs)
    callbacksSinceTrigger,      \* debouncer callbacks since the last trigger()
    burst,                      \* trigger() calls in the current quiet window (2: more)
    preSearchCategory,          \* the active category when the search began
    searchPhase                 \* none | searching | cleared | restored

viewerVars ==
    <<dataset, sortCategories, mainData, categoriesFromJSON, allDisplayableTabs,
      checkedTabs, activeCategory, lastActiveTabBeforeSearch, isLoading,
      isContentLoaded, currentSearchText, filteredData, gridAllButtons,
      renderSession, idleChunks,
      setActiveCategoryTimeoutId, focusTimers, debounceTimer, debouncerDestroyed,
      contentArea, recents, onStage, itemsPerRow, gridFocus, configValid, trace,
      tracing, gridKey,
      gridFocusBefore, gridKeyResult, chunkLog, staleRan, staleAttached,
      sinceTrigger, callbacksSinceTrigger, burst, preSearchCategory, searchPhase>>

\* MasonryLayout
VARIABLES
    columns,                    \* _columns
    spacing,                    \* _spacing
    width,                      \* the actor's width
    height,                     \* the actor's height
    columnHeights,              \* _columnHeights, column 0 first
    items,                      \* _items
    children,                   \* the placed widgets, in order of placement
    pendingAllocationId,        \* _pendingAllocationId (0: none)
    pendingTimeoutId,           \* _pendingTimeoutId (0: none)
    handlers,                   \* connected notify::width handlers: id -> items
    timeouts,                   \* scheduled GLib timeouts: id -> items
    keyFocus,                   \* the child holding the key focus (0: none of them)
    destroyed,                  \* destroy() has been called on the layout
    \* the last key press since the children last changed
    keySymbol,                  \* the key _onKeyPress handled
    keyFocusBefore,             \* the key focus as the key was pressed
    keyResult,                  \* what _onKeyPress returned
    \* history variables
    heightsAtPlacement,         \* _columnHeights as each child was placed
    pendingAtPacking,           \* callbacks pending as _renderItems last began
    dropped,                    \* items handed to addItems were dropped
    staleDeferred               \* the pending callbacks were there at the last clear()

masonryVars ==
    <<columns, spacing, width, height, columnHeights, items, children,
      pendingAllocationId, pendingTimeoutId, handlers, timeouts,
      keyFocus, destroyed, keySymbol, keyFocusBefore, keyResult,
      heightsAtPlacement, pendingAtPacking, dropped, staleDeferred>>

\* The indicator, the preferences' tab switches and the settings they share
VARIABLES
    indicator,                  \* the indicator's fields, as a record
    tabSettings,                \* the enable-<tab>-tab keys, by tab
    settingsChanged,            \* a changed::<key> is due at the indicator
    rowSensitive,               \* the sensitive flag of each switch row
    \* history variables
    lastWriter,                 \* who last changed a tab's key
    tabWrites                   \* the writes to tab keys from outside

shellVars ==
    <<indicator, tabSettings, settingsChanged, rowSensitive, lastWriter,
      tabWrites>>

\* The extension's clear-recents trigger
VARIABLES
    clearRecentsTrigger,        \* the clear-recents-trigger key
    triggerSignals,             \* its change notifications not yet handled
    stores,                     \* whether each store the triggers clear holds data
    \* history variables
    triggerWrites,              \* the writes of a trigger value
    triggerRuns                 \* the runs of _onClearRecentsTrigger

triggerVars ==
    <<clearRecentsTrigger, triggerSignals, stores, triggerWrites, triggerRuns>>

\* the viewer's state as one record, on which the handlers are functions;
\* a handler starts with an empty trace
Cur ==
    [dataset |-> dataset, sortCategories |-> sortCategories, mainData |-> mainData,
     categoriesFromJSON |-> categoriesFromJSON,
     allDisplayableTabs |-> allDisplayableTabs, checkedTabs |-> checkedTabs,
     activeCategory |-> activeCategory,
     lastActiveTabBeforeSearch |-> lastActiveTabBeforeSearch,
     isLoading |-> isLoading, isContentLoaded |-> isContentLoaded,
     currentSearchText |-> currentSearchText, filteredData |-> filteredData,
     gridAllButtons |-> gridAllButtons, renderSession |-> renderSession,
     idleChunks |-> idleChunks,
     setActiveCategoryTimeoutId |-> setActiveCategoryTimeoutId,
     focusTimers |-> focusTimers, debounceTimer |-> debounceTimer,
     debouncerDestroyed |-> debouncerDestroyed, contentArea |-> contentArea,
     recents |-> recents, onStage |-> onStage, itemsPerRow |-> itemsPerRow,
     gridFocus |-> gridFocus, configValid |-> configValid, trace |-> <<>>,
     gridKey |-> gridKey,
     gridFocusBefore |-> gridFocusBefore, gridKeyResult |-> gridKeyResult,
     chunkLog |-> chunkLog,
     staleRan |-> staleRan, staleAttached |-> staleAttached,
     sinceTrigger |-> sinceTrigger,
     callbacksSinceTrigger |-> callbacksSinceTrigger, burst |-> burst,
     preSearchCategory |-> preSearchCategory, searchPhase |-> searchPhase]

\* the state after a handler has returned n
Commit(n) ==
    /\ dataset' = n.dataset
    /\ sortCategories' = n.sortCategories
    /\ mainData' = n.mainData
    /\ categoriesFromJSON' = n.categoriesFromJSON
    /\ allDisplayableTabs' = n.allDisplayableTabs
    /\ checkedTabs' = n.checkedTabs
    /\ activeCategory' = n.activeCategory
    /\ lastActiveTabBeforeSearch' = n.lastActiveTabBeforeSearch
    /\ isLoading' = n.isLoading
    /\ isContentLoaded' = n.isContentLoaded
    /\ currentSearchText' = n.currentSearchText
    /\ filteredData' = n.filteredData
    /\ gridAllButtons' = n.gridAllButtons
    /\ renderSession' = n.renderSession
    /\ idleChunks' = n.idleChunks
    /\ setActiveCategoryTimeoutId' = n.setActiveCategoryTimeoutId
    /\ focusTimers' = n.focusTimers
    /\ debounceTimer' = n.debounceTimer
    /\ debouncerDestroyed' = n.debouncerDestroyed
    /\ contentArea' = n.contentArea
    /\ recents' = n.recents
    /\ onStage' = n.onStage
    /\ itemsPerRow' = n.itemsPerRow
    /\ gridFocus' = n.gridFocus
    /\ configValid' = n.configValid
    /\ trace' = (IF tracing THEN n.trace ELSE <<>>)
    /\ tracing' = tracing
    /\ gridKey' = n.gridKey
    /\ gridFocusBefore' = n.gridFocusBefore
    /\ gridKeyResult' = n.gridKeyResult
    /\ chunkLog' = n.chunkLog
    /\ staleRan' = n.staleRan
    /\ staleAttached' = n.staleAttached
    /\ sinceTrigger' = n.sinceTrigger
    /\ callbacksSinceTrigger' = n.callbacksSinceTrigger
    /\ burst' = n.burst
    /\ preSearchCategory' = n.preSearchCategory
    /\ searchPhase' = n.searchPhase
    /\ UNCHANGED <<masonryVars, shellVars, triggerVars>>

----------------------------------------------------------------------------
(* Collaborators whose source is not part of the model's sources:          *)
(* Debouncer, RecentItemsManager, SearchComponent.                         *)

RECURSIVE ApplyFiltersAndRenderGrid(_)
RECURSIVE SetActiveCategory(_, _)

\* the handler does op on arg (a tuple, <<>> when op has no argument)
Did(s, op, arg) == [s EXCEPT !.trace = Append(@, [op |-> op, arg |-> arg])]

\* the operations op of a trace, in order
Ops(tr) == [i \in DOMAIN tr |-> tr[i].op]

\* how many times op was done in a trace
Count(tr, op) == Cardinality({i \in DOMAIN tr : tr[i].op = op})

\* Debouncer.trigger(): restarts the quiet-period timer
DebouncerTrigger(s) ==
    IF s.debouncerDestroyed THEN s
    ELSE [s EXCEPT !.debounceTimer = DebounceMs,
                   !.burst = IF s.debounceTimer > 0 THEN Min(@ + 1, 2) ELSE 1,
                   !.sinceTrigger = 0,
                   !.callbacksSinceTrigger = 0]

\* Debouncer.destroy(): cancels the pending timer; later calls are no-ops
DebouncerDestroy(s) ==
    [s EXCEPT !.debounceTimer = -1, !.debouncerDestroyed = TRUE]

\* the callback the viewer gives its debouncer
DebouncerCallback(s) ==
    ApplyFiltersAndRenderGrid(
        [s EXCEPT !.callbacksSinceTrigger = Min(@ + 1, 2)])

\* RecentItemsManager.getRecents(): most recent first
GetRecents(s) == s.recents

\* RecentItemsManager.addItem(): dedup, recency bump, size-bounded eviction
AddItemToStore(s, id) ==
    LET bumped == <<id>> \o SelectSeq(s.recents, LAMBDA x : x # id)
    IN  [s EXCEPT !.recents = SubSeq(bumped, 1, Min(Len(bumped), MaxRecents))]

----------------------------------------------------------------------------
(* CategorizedItemViewer *)

Range(seq) == {seq[i] : i \in DOMAIN seq}

\* if (!x) on a category: null or the empty string
Falsy(c) == c = Null \/ c = <<>>

\* a chunk as _renderGridChunk would run it if it did not compare sessions
RenderGridChunk_NoSessionCheck(s, session, startIndex) ==
    IF ~s.onStage THEN s
    ELSE
        LET endIndex == Min(startIndex + itemsPerChunk, Len(s.filteredData))
            buttons == [k \in 1..(endIndex - startIndex) |->
                           [item |-> s.filteredData[startIndex + k],
                            session |-> session]]
        IN  [s EXCEPT
                !.gridAllButtons = @ \o buttons,
                !.staleAttached =
                    IF session # s.renderSession
                    THEN @ + (endIndex - startIndex) ELSE @,
                !.idleChunks =
                    IF endIndex < Len(s.filteredData)
                    THEN @ \cup {[session |-> session, startIndex |-> endIndex]}
                    ELSE @,
                !.chunkLog = Append(@, <<startIndex, endIndex>>)]

\* a chunk as _renderGridChunk would run it if it did not ask for the stage
RenderGridChunk_NoStageCheck(s, session, startIndex) ==
    IF session # s.renderSession THEN s
    ELSE
        LET endIndex == Min(startIndex + itemsPerChunk, Len(s.filteredData))
            buttons == [k \in 1..(endIndex - startIndex) |->
                           [item |-> s.filteredData[startIndex + k],
                            session |-> session]]
        IN  [s EXCEPT
                !.gridAllButtons = @ \o buttons,
                !.idleChunks =
                    IF endIndex < Len(s.filteredData)
                    THEN @ \cup {[session |-> session, startIndex |-> endIndex]}
                    ELSE @,
                !.chunkLog = Append(@, <<startIndex, endIndex>>)]

\* a chunk as _renderGridChunk would run it if it scheduled the next chunk
\* only while a whole chunk is left
RenderGridChunk_FullChunksOnly(s, session, startIndex) ==
    IF session # s.renderSession \/ ~s.onStage THEN s
    ELSE
        LET endIndex == Min(startIndex + itemsPerChunk, Len(s.filteredData))
            buttons == [k \in 1..(endIndex - startIndex) |->
                           [item |-> s.filteredData[startIndex + k],
                            session |-> session]]
        IN  [s EXCEPT
                !.gridAllButtons = @ \o buttons,
                !.idleChunks =
                    IF endIndex + itemsPerChunk <= Len(s.filteredData)
                    THEN @ \cup {[session |-> session, startIndex |-> endIndex]}
                    ELSE @,
                !.chunkLog = Append(@, <<startIndex, endIndex>>)]

\* a chunk as _renderGridChunk would run it if it scheduled the next chunk
\* on endIndex <= length
RenderGridChunk_ExtraChunk(s, session, startIndex) ==
    IF session # s.renderSession \/ ~s.onStage THEN s
    ELSE
        LET endIndex == Min(startIndex + itemsPerChunk, Len(s.filteredData))
            buttons == [k \in 1..(endIndex - startIndex) |->
                           [item |-> s.filteredData[startIndex + k],
                            session |-> session]]
        IN  [s EXCEPT
                !.gridAllButtons = @ \o buttons,
                !.idleChunks =
                    IF endIndex <= Len(s.filteredData) /\ startIndex < endIndex
                    THEN @ \cup {[session |-> session, startIndex |-> endIndex]}
                    ELSE @,
                !.chunkLog = Append(@, <<startIndex, endIndex>>)]

\* the value a config's render function gives no widget for
Unrenderable == <<"?">>

\* config.renderGridItemFn(itemData): TRUE for a button, FALSE for a falsy
\* result
RenderGridItemFn(itemData) == itemData.name # Unrenderable

\* the handler raised between the states before and after
Threw(before, after) ==
    Count(after.trace, "TypeError") > Count(before.trace, "TypeError")

\* _renderGridChunk(grid, startIndex, session, scrollView); the guard asks
\* the viewer for its stage when the session is the current one, and the loop
\* ends in a TypeError at itemButton.connect(...) on the first item the
\* render function gives no button for
RenderGridChunk(s, session, startIndex) ==
    IF session # s.renderSession THEN s
    ELSE IF ~s.onStage THEN Did(s, "get_stage", <<>>)
    ELSE
        LET endIndex == Min(startIndex + itemsPerChunk, Len(s.filteredData))
            falsy == {i \in (startIndex + 1)..endIndex :
                         ~RenderGridItemFn(s.mainData[s.filteredData[i]])}
            lastIndex == IF falsy = {} THEN endIndex
                         ELSE (CHOOSE i \in falsy : \A j \in falsy : i <= j) - 1
            buttons == [k \in 1..(lastIndex - startIndex) |->
                           [item |-> s.filteredData[startIndex + k],
                            session |-> session]]
            attached == [Did(s, "get_stage", <<>>) EXCEPT
                            !.gridAllButtons = @ \o buttons,
                            !.staleAttached =
                                IF session # s.renderSession
                                THEN @ + (lastIndex - startIndex) ELSE @,
                            !.chunkLog = Append(@, <<startIndex, lastIndex>>)]
        IN  IF falsy # {} THEN Did(attached, "TypeError", <<>>)
            ELSE [attached EXCEPT
                     !.idleChunks =
                         IF endIndex < Len(s.filteredData)
                         THEN @ \cup {[session |-> session,
                                       startIndex |-> endIndex]}
                         ELSE @]

\* this._renderSession = {}: an object distinct from every session still
\* referenced (the current one, those captured by pending idle callbacks),
\* named by the least number not in use
FreshSession(s) ==
    LET used == {s.renderSession} \cup {c.session : c \in s.idleChunks}
    IN  CHOOSE n \in 1..(Cardinality(used) + 1) :
            /\ n \notin used
            /\ \A m \in 1..(n - 1) : m \in used

\* _renderGrid() if it did not empty the navigation list
RenderGrid_KeepButtons(s) ==
    LET session == FreshSession(s)
        s1 == [s EXCEPT !.renderSession = session,
                        !.gridFocus = IF @ > 0 THEN 0 ELSE @,
                        !.gridKey = "none",
                        !.gridFocusBefore = 0,
                        !.gridKeyResult = "none",
                        !.chunkLog = <<>>]
        chunked == RenderGridChunk(s1, session, 0)
    IN  IF Len(s1.filteredData) = 0
        THEN [s1 EXCEPT !.contentArea = "message"]
        ELSE IF Threw(s1, chunked)
        THEN [chunked EXCEPT !.contentArea = "empty"]
        ELSE [chunked EXCEPT !.contentArea = "grid"]

\* _renderGrid()
RenderGrid(s) ==
    LET session == FreshSession(s)
        s1 == [s EXCEPT !.gridAllButtons = <<>>,
                        !.renderSession = session,
                        !.gridFocus = IF @ > 0 THEN 0 ELSE @,
                        !.gridKey = "none",
                        !.gridFocusBefore = 0,
                        !.gridKeyResult = "none",
                        !.chunkLog = <<>>]
        chunked == RenderGridChunk(s1, session, 0)
    IN  IF Len(s1.filteredData) = 0
        THEN [s1 EXCEPT !.contentArea = "message"]
        ELSE IF Threw(s1, chunked)
        THEN [chunked EXCEPT !.contentArea = "empty"]
        ELSE [chunked EXCEPT !.contentArea = "grid"]

\* _onSearchTextChanged if clearing the search went back to Recents
OnSearchTextChanged_ResetToRecents(s, searchText) ==
    LET newSearchText == Trim(ToLowerCase(searchText))
        oldSearchText == s.currentSearchText
    IN  IF oldSearchText = newSearchText THEN s
        ELSE DebouncerTrigger(
                [s EXCEPT
                    !.currentSearchText = newSearchText,
                    !.lastActiveTabBeforeSearch =
                        IF Len(newSearchText) > 0 /\ Len(oldSearchText) = 0
                        THEN s.activeCategory ELSE @,
                    !.activeCategory =
                        IF Len(newSearchText) = 0 /\ Len(oldSearchText) > 0
                        THEN RECENTS_TAB_ID ELSE @])

\* _onSearchTextChanged if it rendered at once instead of triggering the
\* debouncer
OnSearchTextChanged_RenderNow(s, searchText) ==
    LET newSearchText == Trim(ToLowerCase(searchText))
        oldSearchText == s.currentSearchText
    IN  IF oldSearchText = newSearchText THEN s
        ELSE DebouncerCallback(
                [s EXCEPT
                    !.currentSearchText = newSearchText,
                    !.lastActiveTabBeforeSearch =
                        IF Len(newSearchText) > 0 /\ Len(oldSearchText) = 0
                        THEN s.activeCategory ELSE @,
                    !.activeCategory =
                        IF Len(newSearchText) = 0 /\ Len(oldSearchText) > 0
                        THEN s.lastActiveTabBeforeSearch ELSE @])

\* _onSearchTextChanged if it did not compare the new text with the old
OnSearchTextChanged_NoChangeCheck(s, searchText) ==
    LET newSearchText == Trim(ToLowerCase(searchText))
        oldSearchText == s.currentSearchText
    IN  DebouncerTrigger(Did(
            [s EXCEPT
                !.currentSearchText = newSearchText,
                !.lastActiveTabBeforeSearch =
                    IF Len(newSearchText) > 0 /\ Len(oldSearchText) = 0
                    THEN s.activeCategory ELSE @,
                !.activeCategory =
                    IF Len(newSearchText) = 0 /\ Len(oldSearchText) > 0
                    THEN s.lastActiveTabBeforeSearch ELSE @],
            "trigger", <<>>))

\* _onSearchTextChanged(searchText)
OnSearchTextChanged(s, searchText) ==
    LET newSearchText == Trim(ToLowerCase(searchText))
        oldSearchText == s.currentSearchText
    IN  IF oldSearchText = newSearchText THEN s
        ELSE DebouncerTrigger(Did(
                [s EXCEPT
                    !.currentSearchText = newSearchText,
                    !.lastActiveTabBeforeSearch =
                        IF Len(newSearchText) > 0 /\ Len(oldSearchText) = 0
                        THEN s.activeCategory ELSE @,
                    !.activeCategory =
                        IF Len(newSearchText) = 0 /\ Len(oldSearchText) > 0
                        THEN s.lastActiveTabBeforeSearch ELSE @],
                "trigger", <<>>))

\* SearchComponent.clearSearch(): empties the entry, whose text-changed
\* handler calls back into the viewer
ClearSearch(s) == OnSearchTextChanged(s, <<>>)

\* _applyFiltersAndRenderGrid if a search looked only at the active category
ApplyFiltersAndRenderGrid_ScopedSearch(s) ==
    IF ~s.isContentLoaded THEN s
    ELSE IF Len(s.currentSearchText) > 0
    THEN RenderGrid(
            [s EXCEPT !.filteredData =
                FilterIdx(Len(s.mainData),
                    LAMBDA i : /\ SearchFilterFn(s.mainData[i], s.currentSearchText)
                               /\ s.mainData[i].cat = s.activeCategory)])
    ELSE IF Falsy(s.activeCategory) /\ Len(s.allDisplayableTabs) > 0
    THEN SetActiveCategory(s, s.allDisplayableTabs[1])
    ELSE IF s.activeCategory = RECENTS_TAB_ID
    THEN RenderGrid([s EXCEPT !.filteredData = GetRecents(s)])
    ELSE IF ~Falsy(s.activeCategory)
    THEN RenderGrid(
            [s EXCEPT !.filteredData =
                FilterIdx(Len(s.mainData),
                    LAMBDA i : s.mainData[i].cat = s.activeCategory)])
    ELSE RenderGrid([s EXCEPT !.filteredData = <<>>])

\* _applyFiltersAndRenderGrid() if it did not return while nothing is loaded
ApplyFiltersAndRenderGrid_NoLoadedCheck(s) ==
    IF Len(s.currentSearchText) > 0
    THEN RenderGrid(
            [s EXCEPT !.filteredData =
                FilterIdx(Len(s.mainData),
                    LAMBDA i : SearchFilterFn(s.mainData[i], s.currentSearchText))])
    ELSE IF Falsy(s.activeCategory) /\ Len(s.allDisplayableTabs) > 0
    THEN SetActiveCategory(s, s.allDisplayableTabs[1])
    ELSE IF s.activeCategory = RECENTS_TAB_ID
    THEN RenderGrid([s EXCEPT !.filteredData = GetRecents(s)])
    ELSE IF ~Falsy(s.activeCategory)
    THEN RenderGrid(
            [s EXCEPT !.filteredData =
                FilterIdx(Len(s.mainData),
                    LAMBDA i : s.mainData[i].cat = s.activeCategory)])
    ELSE RenderGrid([s EXCEPT !.filteredData = <<>>])

\* _applyFiltersAndRenderGrid()
ApplyFiltersAndRenderGrid(s) ==
    IF ~s.isContentLoaded THEN s
    ELSE IF Len(s.currentSearchText) > 0
    THEN RenderGrid(
            [s EXCEPT !.filteredData =
                FilterIdx(Len(s.mainData),
                    LAMBDA i : SearchFilterFn(s.mainData[i], s.currentSearchText))])
    ELSE IF Falsy(s.activeCategory) /\ Len(s.allDisplayableTabs) > 0
    THEN SetActiveCategory(s, s.allDisplayableTabs[1])
    ELSE IF s.activeCategory = RECENTS_TAB_ID
    THEN RenderGrid([s EXCEPT !.filteredData = GetRecents(s)])
    ELSE IF ~Falsy(s.activeCategory)
    THEN RenderGrid(
            [s EXCEPT !.filteredData =
                FilterIdx(Len(s.mainData),
                    LAMBDA i : s.mainData[i].cat = s.activeCategory)])
    ELSE RenderGrid([s EXCEPT !.filteredData = <<>>])

\* _setActiveCategory(id) if it did not return early on the active category
SetActiveCategory_NoActiveCheck(s, id) ==
    LET called == Did(s, "setActiveCategory", id)
        s1 == IF s.currentSearchText # <<>> THEN ClearSearch(called) ELSE called
        s2 == [s1 EXCEPT
                  !.activeCategory = id,
                  !.lastActiveTabBeforeSearch = id,
                  !.checkedTabs =
                      IF id \in Range(s1.allDisplayableTabs)
                      THEN {id} ELSE {}]
        s3 == ApplyFiltersAndRenderGrid(s2)
    IN  [s3 EXCEPT
            !.focusTimers =
                (IF s3.setActiveCategoryTimeoutId # 0 THEN @ - 1 ELSE @) + 1,
            !.setActiveCategoryTimeoutId = 1]

\* _setActiveCategory(id) if it left a pending focus-restore timeout in place
SetActiveCategory_NoTimerRemoval(s, id) ==
    LET called == Did(s, "setActiveCategory", id)
        s1 == IF s.currentSearchText # <<>> THEN ClearSearch(called) ELSE called
    IN  IF s1.activeCategory = id THEN s1
        ELSE
            LET s2 == [s1 EXCEPT
                          !.activeCategory = id,
                          !.lastActiveTabBeforeSearch = id,
                          !.checkedTabs =
                              IF id \in Range(s1.allDisplayableTabs)
                              THEN {id} ELSE {}]
                s3 == ApplyFiltersAndRenderGrid(s2)
            IN  [s3 EXCEPT !.focusTimers = @ + 1,
                           !.setActiveCategoryTimeoutId = 1]

\* _setActiveCategory(id)
SetActiveCategory(s, id) ==
    LET called == Did(s, "setActiveCategory", id)
        s1 == IF s.currentSearchText # <<>> THEN ClearSearch(called) ELSE called
    IN  IF s1.activeCategory = id THEN s1
        ELSE
            LET s2 == [s1 EXCEPT
                          !.activeCategory = id,
                          !.lastActiveTabBeforeSearch = id,
                          !.checkedTabs =
                              IF id \in Range(s1.allDisplayableTabs)
                              THEN {id} ELSE {}]
                s3 == ApplyFiltersAndRenderGrid(s2)
            IN  IF Threw(s2, s3) THEN s3
                ELSE [s3 EXCEPT
                        !.focusTimers =
                            (IF s3.setActiveCategoryTimeoutId # 0
                             THEN @ - 1 ELSE @) + 1,
                        !.setActiveCategoryTimeoutId = 1]

\* the categories of the dataset if the seen-set test were missing
UniqueCategoriesInOrder_NoSeenSet(data) ==
    LET first == FilterIdx(Len(data), LAMBDA i : data[i].cat # <<>>)
    IN  [k \in 1..Len(first) |-> data[first[k]].cat]

\* the unique categories of the dataset in their order of appearance
\* (_loadAndParseData, the loop over this._mainData): an item contributes
\* its category when it is truthy and no earlier item had it
UniqueCategoriesInOrder(data) ==
    LET first == FilterIdx(Len(data),
                     LAMBDA i : /\ data[i].cat # <<>>
                                /\ \A j \in 1..(i - 1) : data[j].cat # data[i].cat)
    IN  [k \in 1..Len(first) |-> data[first[k]].cat]

\* the category selected after a load if it were the first dataset category
InitialCategory_FirstCategory(tabs) ==
    IF Len(tabs) > 1 THEN tabs[2] ELSE tabs[1]

\* the category selected after a load: Recents, or the first tab
InitialCategory(tabs) ==
    IF RECENTS_TAB_ID \in Range(tabs) THEN RECENTS_TAB_ID
    ELSE IF Len(tabs) > 0 THEN tabs[1] ELSE Null

\* _renderErrorState(errorMessage): this._contentArea.destroy_all_children()
\* is a TypeError while _buildUI() has not made the content area
RenderErrorState(s, errorMessage) ==
    IF s.contentArea = "undefined"
    THEN Did(s, "TypeError", <<>>)
    ELSE [s EXCEPT !.contentArea = errorMessage]

\* _loadAndParseData(), up to its await: the guard, the loading label and the
\* start of the asynchronous read of the file
LoadAndParseData(s) ==
    IF s.isLoading THEN s
    ELSE Did([s EXCEPT !.isLoading = TRUE, !.contentArea = "loading"],
             "load_contents_async", <<>>)

\* onSelected() if it looked only at _isLoading
OnSelected_NoLoadedCheck(s) ==
    IF ~s.isLoading
    THEN LoadAndParseData([s EXCEPT !.contentArea = "empty"])
    ELSE s

\* onSelected(): starts the load unless loaded or loading
OnSelected(s) ==
    IF ~s.isContentLoaded /\ ~s.isLoading
    THEN LoadAndParseData([s EXCEPT !.contentArea = "empty"])
    ELSE s

\* _loadAndParseData(), the catch block: the file is missing, unreadable or
\* does not parse, or a statement of the try block has raised
LoadFails(s) ==
    [RenderErrorState([s EXCEPT !.isContentLoaded = FALSE], "load-error")
        EXCEPT !.isLoading = FALSE]

\* _loadAndParseData(), after the file's contents have arrived and parsed
LoadSucceeds(s) ==
    LET unique == UniqueCategoriesInOrder(s.dataset)
        cats == IF s.sortCategories THEN Sort(unique) ELSE unique
        tabs == <<RECENTS_TAB_ID>> \o cats
        s1 == Did([s EXCEPT !.mainData = s.dataset,
                            !.categoriesFromJSON = cats,
                            !.allDisplayableTabs = tabs,
                            !.checkedTabs = {},
                            !.isContentLoaded = TRUE],
                  "buildCategoryTabs", <<>>)
        s2 == SetActiveCategory(s1, InitialCategory(tabs))
    IN  IF Threw(s1, s2) THEN LoadFails(s2)
        ELSE [s2 EXCEPT !.isLoading = FALSE]

\* the 'recents-changed' handler if it re-rendered whatever is shown
OnRecentsChanged_Always(s) ==
    ApplyFiltersAndRenderGrid(Did(s, "recents-changed", <<>>))

\* the 'recents-changed' handler connected in the constructor
OnRecentsChanged(s) ==
    LET signalled == Did(s, "recents-changed", <<>>)
    IN  IF s.currentSearchText = <<>> /\ s.activeCategory = RECENTS_TAB_ID
        THEN ApplyFiltersAndRenderGrid(signalled)
        ELSE signalled

\* the 'clicked' handler of a grid button if it emitted before recording
OnItemClicked_EmitFirst(s, k) ==
    LET item == s.gridAllButtons[k].item
        built == Did(s, "createSignalPayload", <<item>>)
        emitted == Did(built, "emit", <<item>>)
    IN  OnRecentsChanged(Did(AddItemToStore(emitted, item), "addItem", <<item>>))

\* the 'clicked' handler of a grid button: the item is recorded (the store
\* then signals the change), the payload is built and emitted
OnItemClicked(s, k) ==
    LET item == s.gridAllButtons[k].item
        recorded == OnRecentsChanged(
                        Did(AddItemToStore(s, item), "addItem", <<item>>))
        built == Did(recorded, "createSignalPayload", <<item>>)
    IN  Did(built, "emit", <<item>>)

\* the focus-restore timeout callback of _setActiveCategory
OnFocusTimeout(s) ==
    [s EXCEPT !.setActiveCategoryTimeoutId = 0, !.focusTimers = @ - 1]

\* the keys pressed: the arrows and one other key
Keys == {"KEY_Up", "KEY_Down", "KEY_Left", "KEY_Right", "KEY_Tab"}

\* the search entry as the holder of the key focus
SearchEntry == -1

\* the switch of _onGridKeyPress if Down were not held within the list
GridTargetIndex_DownUnclamped(s, symbol, currentIndex) ==
    CASE symbol = "KEY_Left" /\ currentIndex > 0 -> currentIndex - 1
      [] symbol = "KEY_Right" /\ currentIndex < Len(s.gridAllButtons) - 1 ->
             currentIndex + 1
      [] symbol = "KEY_Up" /\ currentIndex >= s.itemsPerRow ->
             currentIndex - s.itemsPerRow
      [] symbol = "KEY_Down" -> currentIndex + s.itemsPerRow
      [] OTHER -> -1

\* targetIndex after the switch of _onGridKeyPress, but for Up in the top row
GridTargetIndex(s, symbol, currentIndex) ==
    CASE symbol = "KEY_Left" /\ currentIndex > 0 -> currentIndex - 1
      [] symbol = "KEY_Right" /\ currentIndex < Len(s.gridAllButtons) - 1 ->
             currentIndex + 1
      [] symbol = "KEY_Up" /\ currentIndex >= s.itemsPerRow ->
             currentIndex - s.itemsPerRow
      [] symbol = "KEY_Down"
             /\ currentIndex + s.itemsPerRow < Len(s.gridAllButtons) ->
             currentIndex + s.itemsPerRow
      [] OTHER -> -1

\* _onGridKeyPress(actor, event), the key focus being on s.gridFocus; button k
\* of the model is _gridAllButtons[k - 1]
OnGridKeyPress(s, symbol) ==
    LET currentIndex == IF s.gridFocus \in DOMAIN s.gridAllButtons
                        THEN s.gridFocus - 1 ELSE -1
        targetIndex == GridTargetIndex(s, symbol, currentIndex)
        pressed == [s EXCEPT !.gridKey = symbol, !.gridFocusBefore = s.gridFocus]
    IN  IF Len(s.gridAllButtons) = 0
        THEN [pressed EXCEPT !.gridKeyResult = "EVENT_PROPAGATE"]
        ELSE IF currentIndex = -1
        THEN [pressed EXCEPT !.gridKeyResult = "EVENT_PROPAGATE"]
        ELSE IF symbol = "KEY_Up" /\ ~(currentIndex >= s.itemsPerRow)
        THEN [pressed EXCEPT !.gridFocus = SearchEntry,
                             !.gridKeyResult = "EVENT_STOP"]
        ELSE IF targetIndex # -1
        THEN [pressed EXCEPT !.gridFocus = targetIndex + 1,
                             !.gridKeyResult = "EVENT_STOP"]
        ELSE [pressed EXCEPT !.gridKeyResult = "EVENT_STOP"]

\* destroy()
DestroyViewer(s) ==
    LET s1 == [s EXCEPT
                  !.focusTimers =
                      IF s.setActiveCategoryTimeoutId # 0 THEN @ - 1 ELSE @,
                  !.setActiveCategoryTimeoutId = 0]
    IN  [DebouncerDestroy(s1) EXCEPT !.onStage = FALSE]

----------------------------------------------------------------------------
(* Actions of the viewer: one per handler or callback *)

\* the model starts a render pass only while at most MaxIdle idle callbacks
\* are pending
CanRender == Cardinality(idleChunks) <= MaxIdle

\* history: the first render after a search was cleared by an edit
NoteRender(n) ==
    [n EXCEPT !.searchPhase =
        IF @ = "cleared" /\ n.renderSession # renderSession THEN "restored" ELSE @]

\* history: a handler that selects a category ends the search episode
NoteSelect(n) == [n EXCEPT !.searchPhase = "none", !.preSearchCategory = Null]

\* history: a search edit begins or clears a search
NoteEdit(n) ==
    IF currentSearchText = <<>> /\ n.currentSearchText # <<>>
    THEN [n EXCEPT !.searchPhase = "searching",
                   !.preSearchCategory = activeCategory]
    ELSE IF currentSearchText # <<>> /\ n.currentSearchText = <<>>
              /\ searchPhase = "searching"
    THEN [n EXCEPT !.searchPhase = "cleared"]
    ELSE n

OnSelectedAct ==
    /\ onStage
    /\ Commit(OnSelected(Cur))

LoadSucceedsAct ==
    /\ isLoading
    /\ CanRender
    /\ Commit(NoteSelect(LoadSucceeds(Cur)))

LoadFailsAct ==
    /\ isLoading
    /\ Commit(LoadFails(Cur))

SearchTextChangedAct ==
    /\ onStage
    /\ \E raw \in RawTexts : Commit(NoteEdit(OnSearchTextChanged(Cur, raw)))

\* onMenuClosed(): clears the search entry
OnMenuClosedAct ==
    /\ onStage
    /\ Commit(NoteEdit(ClearSearch(Cur)))

\* a click on a category tab
ClickTabAct ==
    /\ onStage
    /\ CanRender
    /\ \E id \in Range(allDisplayableTabs) :
           Commit(NoteSelect(SetActiveCategory(Cur, id)))

\* time passes
TickAct ==
    /\ debounceTimer > 0
    /\ Commit([Cur EXCEPT !.debounceTimer = Max(0, @ - TickMs),
                          !.sinceTrigger = Min(DebounceMs, @ + TickMs)])

\* the debouncer's timer has elapsed and its source is dispatched
DebounceFireAct ==
    /\ debounceTimer = 0
    /\ CanRender
    /\ Commit(NoteRender(DebouncerCallback([Cur EXCEPT !.debounceTimer = -1])))

\* rerenderGrid()
RerenderGridAct ==
    /\ onStage
    /\ CanRender
    /\ Commit(NoteRender(ApplyFiltersAndRenderGrid(Cur)))

\* a click on one of the first grid buttons
ClickItemAct ==
    /\ onStage
    /\ CanRender
    /\ contentArea = "grid"
    /\ \E k \in 1..Min(Len(gridAllButtons), MaxClick) :
           Commit(NoteRender(OnItemClicked(Cur, k)))

\* an idle callback scheduled by _renderGridChunk is dispatched
RunIdleChunkAct ==
    \E c \in idleChunks :
        Commit(RenderGridChunk(
            [Cur EXCEPT !.idleChunks = @ \ {c},
                        !.staleRan = @ \/ c.session # renderSession],
            c.session, c.startIndex))

\* the key focus moves to a grid button, to the search entry or away, by
\* other means than the arrow keys
FocusGridAct ==
    /\ onStage
    /\ \E k \in {SearchEntry} \cup (0..Len(gridAllButtons)) :
           /\ k # gridFocus \/ gridKey # "none"
           /\ Commit([Cur EXCEPT !.gridFocus = k,
                                 !.gridKey = "none",
                                 !.gridFocusBefore = 0,
                                 !.gridKeyResult = "none"])

\* a key is pressed while the content area has the event
GridKeyPressAct ==
    /\ onStage
    /\ \E symbol \in Keys : Commit(OnGridKeyPress(Cur, symbol))

FocusTimeoutAct ==
    /\ focusTimers > 0
    /\ Commit(OnFocusTimeout(Cur))

DestroyAct ==
    /\ onStage
    /\ Commit(DestroyViewer(Cur))

----------------------------------------------------------------------------
(* JavaScript numbers: integers, undefined, Infinity, NaN, and the binary64 *)
(* values that / and * produce from them.  A binary64 magnitude is held as  *)
(* an integer of five 20-bit limbs, least significant first, and a scale.   *)

Num(n) == [k |-> "num", v |-> n]
Undefined == [k |-> "undefined", v |-> 0]
Infinity == [k |-> "inf", v |-> 1]
NaN == [k |-> "nan", v |-> 0]

\* if (x) on a number
Truthy(x) == (x.k = "num" /\ x.v # 0) \/ x.k = "inf"

Abs(n) == IF n < 0 THEN -n ELSE n

Limb == 2^20

\* the number of bits of n, for 0 <= n < 2^30
BitLength(n) ==
    IF n = 0 THEN 0 ELSE CHOOSE k \in 1..30 : 2^(k - 1) <= n /\ n < 2^k

\* limb i of x, zero beyond the fifth
LimbAt(x, i) == IF i \in 1..5 THEN x[i] ELSE 0

\* h * 2^s, for h < 2^10
BigShifted(h, s) ==
    LET v == h * 2^(s % 20)
    IN  [i \in 1..5 |-> IF i = (s \div 20) + 1 THEN v % Limb
                        ELSE IF i = (s \div 20) + 2 THEN v \div Limb
                        ELSE 0]

RECURSIVE BigDivRem(_, _, _)
\* the remainder of the limbs from i up, divided by w
BigDivRem(x, w, i) ==
    IF i > 5 THEN 0 ELSE (BigDivRem(x, w, i + 1) * Limb + x[i]) % w

\* floor(x / w), for 0 < w < 2^10
BigDiv(x, w) ==
    [i \in 1..5 |-> (BigDivRem(x, w, i + 1) * Limb + x[i]) \div w]

RECURSIVE BigMulCarry(_, _, _)
\* the carry into limb i of x * c
BigMulCarry(x, c, i) ==
    IF i = 1 THEN 0 ELSE (x[i - 1] * c + BigMulCarry(x, c, i - 1)) \div Limb

\* x * c, for 0 <= c < 2^10
BigMul(x, c) == [i \in 1..5 |-> (x[i] * c + BigMulCarry(x, c, i)) % Limb]

RECURSIVE BigAddCarry(_, _, _)
\* the carry into limb i of x + a
BigAddCarry(x, a, i) ==
    IF i = 1 THEN a ELSE (x[i - 1] + BigAddCarry(x, a, i - 1)) \div Limb

\* x + a, for a in {0, 1}
BigAdd(x, a) == [i \in 1..5 |-> (x[i] + BigAddCarry(x, a, i)) % Limb]

BigBitLength(x) ==
    IF \A i \in 1..5 : x[i] = 0 THEN 0
    ELSE LET top == CHOOSE i \in 1..5 :
                        x[i] # 0 /\ \A j \in (i + 1)..5 : x[j] = 0
         IN  20 * (top - 1) + BitLength(x[top])

\* floor(x / 2^u)
BigShiftRight(x, u) ==
    LET k == u \div 20
        b == u % 20
    IN  [i \in 1..5 |-> (LimbAt(x, i + k) \div 2^b)
                        + (LimbAt(x, i + k + 1) % 2^b) * 2^(20 - b)]

\* bit j of x, bit 0 the least significant
BigBit(x, j) == (LimbAt(x, (j \div 20) + 1) \div 2^(j % 20)) % 2

\* the j low bits of x are all zero
BigLowIsZero(x, j) ==
    /\ \A i \in 1..(j \div 20) : LimbAt(x, i) = 0
    /\ LimbAt(x, (j \div 20) + 1) % 2^(j % 20) = 0

\* x rounded to 53 significant bits, ties to even: [m, t] stands for m * 2^t
RoundTo53(x) ==
    LET len == BigBitLength(x)
        t == IF len > 53 THEN len - 53 ELSE 0
        hi == BigShiftRight(x, t)
        up == /\ t > 0
              /\ BigBit(x, t - 1) = 1
              /\ (~BigLowIsZero(x, t - 1) \/ BigBit(hi, 0) = 1)
    IN  [m |-> BigAdd(hi, IF up THEN 1 ELSE 0), t |-> t]

\* the exponent of h / w: the e with 2^e <= h / w < 2^(e + 1)
Exponent(h, w) ==
    LET d == BitLength(h) - BitLength(w)
    IN  IF h * 2^Max(0, -d) >= w * 2^Max(0, d) THEN d ELSE d - 1

\* the binary64 quotient a / b of two numbers
Divide(a, b) ==
    IF a.k \in {"undefined", "nan"} \/ b.k \in {"undefined", "nan"} THEN NaN
    ELSE IF a.k = "inf" THEN (IF b.k = "inf" THEN NaN ELSE Infinity)
    ELSE IF b.k = "inf" THEN [k |-> "zero"]
    ELSE IF b.v = 0 THEN (IF a.v = 0 THEN NaN ELSE Infinity)
    ELSE IF a.v = 0 THEN [k |-> "zero"]
    ELSE
        LET h == Abs(a.v)
            w == Abs(b.v)
            s == 52 - Exponent(h, w)
            num == BigShifted(h, s)
            q == BigDiv(num, w)
            r == BigDivRem(num, w, 1)
            up == 2 * r > w \/ (2 * r = w /\ BigBit(q, 0) = 1)
        IN  [k |-> "dbl", neg |-> (a.v < 0) # (b.v < 0),
             m |-> BigAdd(q, IF up THEN 1 ELSE 0), s |-> s]

\* the binary64 product c * q of a positive integer and a quotient
Times(c, q) ==
    IF q.k = "dbl"
    THEN LET r == RoundTo53(BigMul(q.m, c))
         IN  [k |-> "dbl", neg |-> q.neg, m |-> r.m, s |-> q.s - r.t]
    ELSE q

\* Math.round: the nearest integer, a tie going towards +Infinity
MathRound(x) ==
    IF x.k = "zero" THEN Num(0)
    ELSE IF x.k # "dbl" THEN x
    ELSE LET whole == BigShiftRight(x.m, x.s)[1]
             half == BigBit(x.m, x.s - 1) = 1
             more == ~BigLowIsZero(x.m, x.s - 1)
         IN  IF x.neg
             THEN Num(-(whole + IF half /\ more THEN 1 ELSE 0))
             ELSE Num(whole + IF half THEN 1 ELSE 0)

----------------------------------------------------------------------------
(* MasonryLayout *)

\* the layout's state as one record, on which the handlers are functions
CurM ==
    [columns |-> columns, spacing |-> spacing, width |-> width,
     height |-> height, columnHeights |-> columnHeights, items |-> items,
     children |-> children, pendingAllocationId |-> pendingAllocationId,
     pendingTimeoutId |-> pendingTimeoutId, handlers |-> handlers,
     timeouts |-> timeouts, keyFocus |-> keyFocus, destroyed |-> destroyed,
     keySymbol |-> keySymbol,
     keyFocusBefore |-> keyFocusBefore,
     keyResult |-> keyResult,
     heightsAtPlacement |-> heightsAtPlacement,
     pendingAtPacking |-> pendingAtPacking, dropped |-> dropped,
     staleDeferred |-> staleDeferred]

\* the state after a handler of the layout has returned n
CommitM(n) ==
    /\ columns' = n.columns
    /\ spacing' = n.spacing
    /\ width' = n.width
    /\ height' = n.height
    /\ columnHeights' = n.columnHeights
    /\ items' = n.items
    /\ children' = n.children
    /\ pendingAllocationId' = n.pendingAllocationId
    /\ pendingTimeoutId' = n.pendingTimeoutId
    /\ handlers' = n.handlers
    /\ timeouts' = n.timeouts
    /\ keyFocus' = n.keyFocus
    /\ destroyed' = n.destroyed
    /\ keySymbol' = n.keySymbol
    /\ keyFocusBefore' = n.keyFocusBefore
    /\ keyResult' = n.keyResult
    /\ heightsAtPlacement' = n.heightsAtPlacement
    /\ pendingAtPacking' = n.pendingAtPacking
    /\ dropped' = n.dropped
    /\ staleDeferred' = n.staleDeferred
    /\ UNCHANGED <<viewerVars, shellVars, triggerVars>>

MinWidth == 32
PaddingLeft == 8
PaddingRight == 8

\* new Array(this._columns).fill(0)
ZeroHeights(cols) == [i \in 1..cols |-> 0]

SeqMax(seq) == CHOOSE x \in Range(seq) : \A y \in Range(seq) : y <= x

SeqMin(seq) == CHOOSE x \in Range(seq) : \A y \in Range(seq) : x <= y

\* clear()
Clear(m) ==
    [m EXCEPT !.children = <<>>,
              !.columnHeights = ZeroHeights(m.columns),
              !.items = <<>>,
              !.height = 0,
              !.keyFocus = 0,
              !.keySymbol = "none",
              !.keyFocusBefore = 0,
              !.keyResult = "none",
              !.heightsAtPlacement = <<>>]

\* _isValidWidth()
IsValidWidth(m) == m.width # 0 /\ m.width > MinWidth

\* a map of callbacks without the one of the id
Without(callbacks, id) == [i \in DOMAIN callbacks \ {id} |-> callbacks[i]]

\* a map of callbacks with one more, its closure holding its
With(callbacks, id, its) ==
    [i \in DOMAIN callbacks \cup {id} |-> IF i = id THEN its ELSE callbacks[i]]

\* the id that connect() or timeout_add() hands out: one not in use
FreshId(callbacks) ==
    CHOOSE i \in 1..(Cardinality(DOMAIN callbacks) + 1) :
        /\ i \notin DOMAIN callbacks
        /\ \A j \in 1..(i - 1) : j \in DOMAIN callbacks

\* _cleanupPendingCallbacks()
CleanupPendingCallbacks(m) ==
    LET removed == IF m.pendingTimeoutId # 0
                   THEN [m EXCEPT !.timeouts = Without(@, m.pendingTimeoutId),
                                  !.pendingTimeoutId = 0]
                   ELSE m
    IN  IF removed.pendingAllocationId # 0
        THEN [removed EXCEPT !.handlers = Without(@, removed.pendingAllocationId),
                             !.pendingAllocationId = 0,
                             !.staleDeferred = FALSE]
        ELSE [removed EXCEPT !.staleDeferred = FALSE]

\* _deferRender if it did not clean up first
DeferRender_NoCleanup(m, its) ==
    [m EXCEPT !.pendingAllocationId = FreshId(m.handlers),
              !.handlers = With(@, FreshId(m.handlers), its),
              !.pendingTimeoutId = FreshId(m.timeouts),
              !.timeouts = With(@, FreshId(m.timeouts), its)]

\* _deferRender(items, renderSession)
DeferRender(m, its) ==
    LET cleaned == CleanupPendingCallbacks(m)
    IN  [cleaned EXCEPT !.pendingAllocationId = FreshId(cleaned.handlers),
                        !.handlers = With(@, FreshId(cleaned.handlers), its),
                        !.pendingTimeoutId = FreshId(cleaned.timeouts),
                        !.timeouts = With(@, FreshId(cleaned.timeouts), its)]

\* _calculateEffectiveWidth()
CalculateEffectiveWidth(m) == m.width - PaddingLeft - PaddingRight

\* _isValidEffectiveWidth(effectiveWidth)
IsValidEffectiveWidth(effectiveWidth) == ~(effectiveWidth <= 0)

\* _calculateColumnWidth(effectiveWidth)
CalculateColumnWidth(m, effectiveWidth) ==
    LET totalSpacing == m.spacing * (m.columns - 1)
    IN  (effectiveWidth - totalSpacing) \div m.columns

\* _isValidColumnWidth(columnWidth)
IsValidColumnWidth(columnWidth) == ~(columnWidth <= 0)

\* _hasValidDimensions(itemData)
HasValidDimensions(itemData) ==
    Truthy(itemData.width) /\ Truthy(itemData.height)

\* _calculateItemHeight(itemData, columnWidth)
CalculateItemHeight(itemData, columnWidth) ==
    LET aspectRatio == Divide(itemData.height, itemData.width)
    IN  MathRound(Times(columnWidth, aspectRatio))

\* _isValidItemHeight(itemHeight)
IsValidItemHeight(itemHeight) ==
    ~(itemHeight.k # "num" \/ itemHeight.v <= 0)

\* the column taken if Math.max stood where Math.min stands
FindShortestColumn_Tallest(m) ==
    (CHOOSE i \in DOMAIN m.columnHeights :
        /\ m.columnHeights[i] = SeqMax(m.columnHeights)
        /\ \A j \in 1..(i - 1) : m.columnHeights[j] # SeqMax(m.columnHeights)) - 1

\* the shortest column if the last of the minimal columns were taken
FindShortestColumn_LastMinimum(m) ==
    (CHOOSE i \in DOMAIN m.columnHeights :
        /\ m.columnHeights[i] = SeqMin(m.columnHeights)
        /\ \A j \in DOMAIN m.columnHeights :
               j > i => m.columnHeights[j] # SeqMin(m.columnHeights)) - 1

\* _findShortestColumn(): indexOf(Math.min(...)), counted from 0
FindShortestColumn(m) ==
    (CHOOSE i \in DOMAIN m.columnHeights :
        /\ m.columnHeights[i] = SeqMin(m.columnHeights)
        /\ \A j \in 1..(i - 1) : m.columnHeights[j] # SeqMin(m.columnHeights)) - 1

\* _positionItem(itemWidget, columnIndex, columnWidth, itemHeight, paddingLeft)
PositionItem(m, itemData, columnIndex, columnWidth, itemHeight, paddingLeft) ==
    [m EXCEPT
        !.children = Append(@,
            [item |-> itemData,
             column |-> columnIndex,
             width |-> columnWidth,
             height |-> itemHeight,
             x |-> paddingLeft + (columnIndex * (columnWidth + m.spacing)),
             y |-> m.columnHeights[columnIndex + 1]]),
        !.keySymbol = "none",
        !.keyFocusBefore = 0,
        !.keyResult = "none",
        !.heightsAtPlacement = Append(@, m.columnHeights)]

\* the column's new height if the spacing were left out
UpdateColumnHeight_NoSpacing(m, columnIndex, itemHeight) ==
    [m EXCEPT !.columnHeights[columnIndex + 1] = @ + itemHeight]

\* the column's new height if it were set where it is added to
UpdateColumnHeight_Assigned(m, columnIndex, itemHeight) ==
    [m EXCEPT !.columnHeights[columnIndex + 1] = itemHeight + m.spacing]

\* _updateColumnHeight(columnIndex, itemHeight)
UpdateColumnHeight(m, columnIndex, itemHeight) ==
    [m EXCEPT !.columnHeights[columnIndex + 1] = @ + itemHeight + m.spacing]

\* _updateContainerHeight()
UpdateContainerHeight(m) ==
    LET maxHeight == SeqMax(m.columnHeights)
    IN  IF maxHeight > 0 THEN [m EXCEPT !.height = maxHeight] ELSE m

\* an item the caller's render function makes no widget for
Unrendered == [width |-> Num(100), height |-> Num(77)]

\* this._renderItemFn(itemData, renderSession), as truthy or falsy
RenderItemFn(itemData) == itemData # Unrendered

\* one turn of the loop of _renderItems
RenderItem(m, itemData, columnWidth) ==
    LET pushed == [m EXCEPT !.items = Append(@, itemData)]
        itemHeight == CalculateItemHeight(itemData, columnWidth)
        shortestColumnIndex == FindShortestColumn(pushed)
    IN  IF ~HasValidDimensions(itemData) THEN pushed
        ELSE IF ~IsValidItemHeight(itemHeight) THEN pushed
        ELSE IF ~RenderItemFn(itemData) THEN pushed
        ELSE UpdateColumnHeight(
                 PositionItem(pushed, itemData, shortestColumnIndex,
                              columnWidth, itemHeight.v, PaddingLeft),
                 shortestColumnIndex, itemHeight.v)

RECURSIVE RenderItems(_, _, _)
\* _renderItems(items, columnWidth, renderSession)
RenderItems(m, its, columnWidth) ==
    IF its = <<>> THEN m
    ELSE RenderItems(RenderItem(m, Head(its), columnWidth), Tail(its), columnWidth)

\* addItems(items, renderSession)
AddItems(m, its) ==
    IF ~IsValidWidth(m) THEN DeferRender(m, its)
    ELSE
        LET effectiveWidth == CalculateEffectiveWidth(m)
            columnWidth == CalculateColumnWidth(m, effectiveWidth)
        IN  IF ~IsValidEffectiveWidth(effectiveWidth) THEN m
            ELSE IF ~IsValidColumnWidth(columnWidth) THEN m
            ELSE UpdateContainerHeight(
                     RenderItems(
                         [m EXCEPT !.pendingAtPacking =
                              Cardinality(DOMAIN m.handlers)
                              + Cardinality(DOMAIN m.timeouts)],
                         its, columnWidth))

\* tryRender of _deferRender, its closure holding its
TryRender(m, its) ==
    LET cleaned == CleanupPendingCallbacks(m)
    IN  IF IsValidWidth(cleaned) THEN AddItems(cleaned, its)
        ELSE cleaned

RECURSIVE NotifyWidth(_, _)
\* the emission of notify::width to the handlers ids, in order of connection;
\* a handler disconnected during the emission is not run
NotifyWidth(m, ids) ==
    IF ids = {} THEN m
    ELSE LET id == CHOOSE i \in ids : \A j \in ids : i <= j
             ran == IF id \in DOMAIN m.handlers
                    THEN TryRender(m, m.handlers[id])
                    ELSE m
         IN  NotifyWidth(ran, ids \ {id})

\* the callback of timeout_add in _deferRender, for the source id
TimeoutCallback(m, id) ==
    TryRender([m EXCEPT !.pendingTimeoutId = 0,
                        !.timeouts = Without(@, id)],
              m.timeouts[id])

\* _relayout()
Relayout(m) == AddItems(Clear(m), m.items)

\* vfunc_allocate(box): setting the width notifies the pending handler
VfuncAllocate(m, newWidth) ==
    IF m.width # newWidth
    THEN LET set == [m EXCEPT !.width = newWidth]
             notified == NotifyWidth(set, DOMAIN set.handlers)
         IN  IF Len(notified.items) > 0 THEN Relayout(notified) ELSE notified
    ELSE m

\* Keyboard navigation of the masonry layout. A widget is named by its place
\* among the children. _spatialMap is rebuilt at the end of every addItems that
\* packs and emptied by clear(), the only places where the children change, so
\* it is a function of the children; centres are kept doubled to stay integral.
EdgeTolerance == 2

ColumnTolerance == 20

ColumnWeight == 5

\* widget.get_allocation_box() of a positioned child
AllocationBox(child) ==
    [x1 |-> child.x, y1 |-> child.y,
     x2 |-> child.x + child.width, y2 |-> child.y + child.height]

\* _buildSpatialMap()
BuildSpatialMap(m) ==
    LET boxes == [k \in DOMAIN m.children |-> AllocationBox(m.children[k])]
        minY == SeqMin([k \in DOMAIN boxes |-> boxes[k].y1])
        minX == SeqMin([k \in DOMAIN boxes |-> boxes[k].x1])
        maxX == SeqMax([k \in DOMAIN boxes |-> boxes[k].x2])
        maxY == SeqMax([k \in DOMAIN boxes |-> boxes[k].y2])
    IN  [k \in DOMAIN boxes |->
            [widget |-> k,
             centerX2 |-> (2 * boxes[k].x1) + (boxes[k].x2 - boxes[k].x1),
             centerY2 |-> (2 * boxes[k].y1) + (boxes[k].y2 - boxes[k].y1),
             y1 |-> boxes[k].y1, x1 |-> boxes[k].x1,
             x2 |-> boxes[k].x2, y2 |-> boxes[k].y2,
             isTopEdge |-> boxes[k].y1 <= minY + EdgeTolerance,
             isBottomEdge |-> boxes[k].y2 >= maxY - EdgeTolerance,
             isLeftEdge |-> boxes[k].x1 <= minX + EdgeTolerance,
             isRightEdge |-> boxes[k].x2 >= maxX - EdgeTolerance]]

\* _getDirectionFromKey(symbol)
GetDirectionFromKey(symbol) ==
    CASE symbol = "KEY_Up" -> "up"
      [] symbol = "KEY_Down" -> "down"
      [] symbol = "KEY_Left" -> "left"
      [] symbol = "KEY_Right" -> "right"
      [] OTHER -> "null"

\* _getVerticalOverlap(itemA, itemB)
GetVerticalOverlap(itemA, itemB) ==
    LET overlapTop == Max(itemA.y1, itemB.y1)
        overlapBottom == Min(itemA.y2, itemB.y2)
    IN  Max(0, overlapBottom - overlapTop)

\* the first of the items seq whose measure is the least: the loops that keep
\* a candidate only when it is strictly better than the best so far
FirstLeast(seq, measure) ==
    LET i == CHOOSE i \in DOMAIN seq :
                 /\ \A j \in DOMAIN seq : measure[i] <= measure[j]
                 /\ \A j \in 1..(i - 1) : measure[j] # measure[i]
    IN  seq[i]

\* no widget: the null of _findClosestInDirection, a focus outside the layout
NoWidget == 0

\* maxOverlap before the loop over the target column
InitialMaxOverlap == -1

\* this._spatialMap.find(item => item.widget === widget), as a place in the
\* map (0: not found)
FindInMap(spatialMap, widget) ==
    IF \E k \in DOMAIN spatialMap : spatialMap[k].widget = widget
    THEN CHOOSE k \in DOMAIN spatialMap :
             /\ spatialMap[k].widget = widget
             /\ \A j \in 1..(k - 1) : spatialMap[j].widget # widget
    ELSE 0

\* the filter of _findClosestInDirection on the side of the direction
IsInDirection(item, currentItem, direction) ==
    /\ item.widget # currentItem.widget
    /\ CASE direction = "right" -> item.centerX2 > currentItem.centerX2
         [] direction = "left" -> item.centerX2 < currentItem.centerX2
         [] direction = "up" -> item.centerY2 < currentItem.centerY2
         [] OTHER -> item.centerY2 > currentItem.centerY2

\* candidatesInDirection
CandidatesInDirection(spatialMap, currentItem, direction) ==
    LET InDirection(item) == IsInDirection(item, currentItem, direction)
    IN  SelectSeq(spatialMap, InDirection)

\* twice Math.abs(item.centerX - currentItem.centerX)
HorizontalDistance2(item, currentItem) == Abs(item.centerX2 - currentItem.centerX2)

\* twice Math.abs(candidate.centerY - currentItem.centerY)
VerticalDistance2(item, currentItem) == Abs(item.centerY2 - currentItem.centerY2)

\* itemsInTargetColumn
ItemsInTargetColumn(candidates, currentItem) ==
    LET minHorizontalDistance2 ==
            SeqMin([i \in DOMAIN candidates |->
                       HorizontalDistance2(candidates[i], currentItem)])
        InTargetColumn(item) ==
            HorizontalDistance2(item, currentItem)
                < minHorizontalDistance2 + (2 * ColumnTolerance)
    IN  SelectSeq(candidates, InTargetColumn)

\* the loop over the target column that keeps the greatest overlap
BestByOverlap(target, currentItem) ==
    LET overlap == [i \in DOMAIN target |->
                       GetVerticalOverlap(currentItem, target[i])]
    IN  IF \E i \in DOMAIN target : overlap[i] > InitialMaxOverlap
        THEN FirstLeast(target, [i \in DOMAIN target |-> 0 - overlap[i]]).widget
        ELSE NoWidget

\* the loop that runs if there is no bestCandidate yet
ClosestCenterY(target, currentItem) ==
    IF target = <<>> THEN NoWidget
    ELSE FirstLeast(target,
             [i \in DOMAIN target |->
                 VerticalDistance2(target[i], currentItem)]).widget

\* four times the square of weightedDistance: Math.sqrt is increasing, and
\* distinct squares of this size (multiples of 1/4 below 2^31) have distinct
\* square roots, so the squares compare as the distances do
WeightedDistanceSquared4(item, currentItem) ==
    ((HorizontalDistance2(item, currentItem) * ColumnWeight)
     * (HorizontalDistance2(item, currentItem) * ColumnWeight))
    + (VerticalDistance2(item, currentItem) * VerticalDistance2(item, currentItem))

\* the loop of the vertical movement if the horizontal distance had no weight
ClosestWeighted_Unweighted(candidates, currentItem) ==
    FirstLeast(candidates,
        [i \in DOMAIN candidates |->
            (HorizontalDistance2(candidates[i], currentItem)
             * HorizontalDistance2(candidates[i], currentItem))
            + (VerticalDistance2(candidates[i], currentItem)
               * VerticalDistance2(candidates[i], currentItem))]).widget

\* the loop of the vertical movement
ClosestWeighted(candidates, currentItem) ==
    FirstLeast(candidates,
        [i \in DOMAIN candidates |->
            WeightedDistanceSquared4(candidates[i], currentItem)]).widget

\* the choice among the candidates of a direction
BestCandidate(candidates, currentItem, direction) ==
    IF candidates = <<>> THEN NoWidget
    ELSE IF direction \in {"left", "right"}
    THEN IF BestByOverlap(ItemsInTargetColumn(candidates, currentItem),
                          currentItem) # NoWidget
         THEN BestByOverlap(ItemsInTargetColumn(candidates, currentItem),
                            currentItem)
         ELSE ClosestCenterY(ItemsInTargetColumn(candidates, currentItem),
                             currentItem)
    ELSE ClosestWeighted(candidates, currentItem)

\* _findClosestInDirection(currentWidget, direction)
FindClosestInDirection(spatialMap, currentWidget, direction) ==
    IF FindInMap(spatialMap, currentWidget) = 0 THEN NoWidget
    ELSE BestCandidate(
             CandidatesInDirection(
                 spatialMap, spatialMap[FindInMap(spatialMap, currentWidget)],
                 direction),
             spatialMap[FindInMap(spatialMap, currentWidget)], direction)

\* the focus and the return value of _onKeyPress for the item under the focus
KeyPressOnItem(m, spatialMap, currentItem, direction) ==
    IF \/ direction = "up" /\ currentItem.isTopEdge
       \/ direction = "left" /\ currentItem.isLeftEdge
       \/ direction = "right" /\ currentItem.isRightEdge
       \/ direction = "down" /\ currentItem.isBottomEdge
    THEN [m EXCEPT !.keyResult =
             IF direction = "up" THEN "EVENT_PROPAGATE" ELSE "EVENT_STOP"]
    ELSE [m EXCEPT
             !.keyFocus =
                 IF FindClosestInDirection(spatialMap, m.keyFocus, direction)
                        # NoWidget
                 THEN FindClosestInDirection(spatialMap, m.keyFocus, direction)
                 ELSE @,
             !.keyResult = "EVENT_STOP"]

\* _onKeyPress if the boundary flags were not looked at
OnKeyPress_NoBoundaryCheck(m, spatialMap, symbol) ==
    IF GetDirectionFromKey(symbol) = "null"
    THEN [m EXCEPT !.keySymbol = symbol, !.keyFocusBefore = m.keyFocus,
                   !.keyResult = "EVENT_PROPAGATE"]
    ELSE IF FindInMap(spatialMap, m.keyFocus) = 0
    THEN [m EXCEPT !.keySymbol = symbol, !.keyFocusBefore = m.keyFocus,
                   !.keyResult = "EVENT_PROPAGATE"]
    ELSE [m EXCEPT
             !.keySymbol = symbol,
             !.keyFocusBefore = m.keyFocus,
             !.keyFocus =
                 IF FindClosestInDirection(spatialMap, m.keyFocus,
                                           GetDirectionFromKey(symbol)) # NoWidget
                 THEN FindClosestInDirection(spatialMap, m.keyFocus,
                                             GetDirectionFromKey(symbol))
                 ELSE @,
             !.keyResult = "EVENT_STOP"]

\* _onKeyPress(actor, event), the key focus being on m.keyFocus
OnKeyPress(m, spatialMap, symbol) ==
    IF GetDirectionFromKey(symbol) = "null"
    THEN [m EXCEPT !.keySymbol = symbol, !.keyFocusBefore = m.keyFocus,
                   !.keyResult = "EVENT_PROPAGATE"]
    ELSE IF FindInMap(spatialMap, m.keyFocus) = 0
    THEN [m EXCEPT !.keySymbol = symbol, !.keyFocusBefore = m.keyFocus,
                   !.keyResult = "EVENT_PROPAGATE"]
    ELSE KeyPressOnItem([m EXCEPT !.keySymbol = symbol,
                                  !.keyFocusBefore = m.keyFocus], spatialMap,
                        spatialMap[FindInMap(spatialMap, m.keyFocus)],
                        GetDirectionFromKey(symbol))

Sized(w, h) == [width |-> w, height |-> h]

\* the items a caller may hand to addItems
ItemKinds ==
    { Sized(Num(100), Num(50)), Sized(Num(100), Num(200)),
      Sized(Num(40), Num(23)),
      Sized(Num(0), Num(50)), Sized(Num(100), Undefined),
      Sized(Num(400), Num(1)), Sized(Num(100), Infinity) }

Batches ==
    UNION {[1..n -> ItemKinds] : n \in 1..MaxBatch}

Widths == {38, 216}

\* the items the layout holds: those of _items, then those in the closure of
\* the pending callbacks
Retained(m) ==
    m.items \o (IF m.pendingAllocationId # 0
                THEN m.handlers[m.pendingAllocationId]
                ELSE <<>>)

\* the state n after a handler that was to leave the layout holding kept,
\* with the history variable brought up to date
Noting(n, kept) == [n EXCEPT !.dropped = @ \/ Retained(n) # kept]

\* a caller hands one of batches to addItems
AddItemsFrom(batches) ==
    \E its \in batches :
        /\ ~destroyed
        /\ Len(Retained(CurM)) + Len(its) <= MaxItems
        /\ CommitM(Noting(AddItems(CurM, its), Retained(CurM) \o its))

AddItemsAct == AddItemsFrom(Batches)

\* the parent allocates one of the widths ws
AllocateTo(ws) ==
    \E newWidth \in ws :
        /\ ~destroyed
        /\ newWidth # width
        /\ CommitM(Noting(VfuncAllocate(CurM, newWidth), Retained(CurM)))

AllocateAct == AllocateTo(Widths)

ClearAct ==
    /\ ~destroyed
    /\ items # <<>> \/ pendingTimeoutId # 0
    /\ CommitM([Clear(CurM) EXCEPT !.dropped = FALSE,
                                  !.staleDeferred = pendingAllocationId # 0])

\* the fallback timeout of _deferRender fires
DeferTimeoutAct ==
    \E id \in DOMAIN timeouts :
        CommitM(Noting(TimeoutCallback(CurM, id), Retained(CurM)))

\* destroy() of the layout; super.destroy() is the toolkit's
DestroyMasonry(m) == [CleanupPendingCallbacks(m) EXCEPT !.destroyed = TRUE]

DestroyMasonryAct ==
    /\ ~destroyed
    /\ CommitM(DestroyMasonry(CurM))

\* the layout after construction with one of the parameter sets cfg
InitMasonry(cfg) ==
    /\ \E c \in cfg : columns = c[1] /\ spacing = c[2]
    /\ width = 0
    /\ height = 0
    /\ columnHeights = ZeroHeights(columns)
    /\ items = <<>>
    /\ children = <<>>
    /\ pendingAllocationId = 0
    /\ pendingTimeoutId = 0
    /\ handlers = <<>>
    /\ timeouts = <<>>
    /\ keyFocus = 0
    /\ destroyed = FALSE
    /\ keySymbol = "none"
    /\ keyFocusBefore = 0
    /\ keyResult = "none"
    /\ heightsAtPlacement = <<>>
    /\ pendingAtPacking = 0
    /\ dropped = FALSE
    /\ staleDeferred = FALSE

NextMasonry ==
    \/ AddItemsAct
    \/ AllocateAct
    \/ ClearAct
    \/ DeferTimeoutAct

\* itemsPerRow of the two viewers of the extension
KaomojiItemsPerRow == 4

SymbolsItemsPerRow == 9

\* the state after construction, for a dataset of ds, a sort flag of sorts and
\* a row length of rows
ConfiguredViewer(ds, sorts, rows) ==
    /\ dataset \in ds
    /\ sortCategories \in sorts
    /\ itemsPerRow \in rows
    /\ configValid = TRUE
    /\ trace = <<>>
    /\ gridFocus = 0
    /\ gridKey = "none"
    /\ gridFocusBefore = 0
    /\ gridKeyResult = "none"
    /\ mainData = <<>>
    /\ categoriesFromJSON = <<>>
    /\ allDisplayableTabs = <<>>
    /\ checkedTabs = {}
    /\ activeCategory = Null
    /\ lastActiveTabBeforeSearch = Null
    /\ isLoading = FALSE
    /\ isContentLoaded = FALSE
    /\ currentSearchText = <<>>
    /\ filteredData = <<>>
    /\ gridAllButtons = <<>>
    /\ renderSession = 0
    /\ idleChunks = {}
    /\ setActiveCategoryTimeoutId = 0
    /\ focusTimers = 0
    /\ debounceTimer = -1
    /\ debouncerDestroyed = FALSE
    /\ contentArea = "empty"
    /\ recents \in {<<>>} \cup {<<i>> : i \in 1..Min(Len(dataset), MaxClick)}
    /\ onStage = TRUE
    /\ chunkLog = <<>>
    /\ staleRan = FALSE
    /\ staleAttached = 0
    /\ sinceTrigger = DebounceMs
    /\ callbacksSinceTrigger = 0
    /\ burst = 0
    /\ preSearchCategory = Null
    /\ searchPhase = "none"

InitViewer(ds, sorts) == ConfiguredViewer(ds, sorts, {KaomojiItemsPerRow})

\* the constructor on a config that lacks a required key: _validateConfig
\* returns false and the constructor calls _renderErrorState before _buildUI
\* has run; the fields the constructor sets afterwards keep the values the
\* model gives an unset field, and the instance is never put on a stage
MisconfiguredViewer(ds) ==
    LET made == RenderErrorState([contentArea |-> "undefined", trace |-> <<>>],
                                 "config-error")
    IN  /\ dataset \in ds
        /\ sortCategories = FALSE
        /\ itemsPerRow = KaomojiItemsPerRow
        /\ configValid = FALSE
        /\ trace = made.trace
        /\ contentArea = made.contentArea
        /\ onStage = FALSE
        /\ gridFocus = 0
        /\ gridKey = "none"
        /\ gridFocusBefore = 0
        /\ gridKeyResult = "none"
        /\ mainData = <<>>
        /\ categoriesFromJSON = <<>>
        /\ allDisplayableTabs = <<>>
        /\ checkedTabs = {}
        /\ activeCategory = Null
        /\ lastActiveTabBeforeSearch = Null
        /\ isLoading = FALSE
        /\ isContentLoaded = FALSE
        /\ currentSearchText = <<>>
        /\ filteredData = <<>>
        /\ gridAllButtons = <<>>
        /\ renderSession = 0
        /\ idleChunks = {}
        /\ setActiveCategoryTimeoutId = 0
        /\ focusTimers = 0
        /\ debounceTimer = -1
        /\ debouncerDestroyed = FALSE
        /\ recents = <<>>
        /\ chunkLog = <<>>
        /\ staleRan = FALSE
        /\ staleAttached = 0
        /\ sinceTrigger = DebounceMs
        /\ callbacksSinceTrigger = 0
        /\ burst = 0
        /\ preSearchCategory = Null
        /\ searchPhase = "none"

\* the viewer on datasets whose lists fit one chunk: no idle callback is
\* ever scheduled
NextViewer ==
    \/ OnSelectedAct
    \/ LoadSucceedsAct
    \/ LoadFailsAct
    \/ SearchTextChangedAct
    \/ OnMenuClosedAct
    \/ ClickTabAct
    \/ TickAct
    \/ DebounceFireAct
    \/ RerenderGridAct
    \/ ClickItemAct
    \/ FocusTimeoutAct
    \/ DestroyAct

\* the viewer on the large dataset: the handlers that start, continue,
\* supersede or abandon a render pass
NextRender ==
    \/ OnSelectedAct
    \/ LoadSucceedsAct
    \/ SearchTextChangedAct
    \/ ClickTabAct
    \/ TickAct
    \/ DebounceFireAct
    \/ RerenderGridAct
    \/ RunIdleChunkAct
    \/ DestroyAct

\* the load alone, on every dataset
NextLoad ==
    \/ OnSelectedAct
    \/ LoadSucceedsAct
    \/ LoadFailsAct

----------------------------------------------------------------------------
\* The panel indicator (AllInOneClipboardIndicator), the tab switches of the
\* preferences window and the extension's clear-recents trigger.  A tab is
\* named by its translated name; an actor by its index in indicator.actors
\* (0: null).

\* TAB_DEFINITIONS, by name, in order; a tab's enable key is named by the tab
TAB_DEFINITIONS ==
    <<"Recently Used", "Emoji", "GIF", "Kaomoji", "Symbols", "Clipboard">>

TabNames == Range(TAB_DEFINITIONS)

\* the tabs of FULL_VIEW_TAB_IDS
FULL_VIEW_TAB_IDS == {"Emoji", "GIF", "Kaomoji", "Symbols"}

\* the tabs whose content is a CategorizedItemViewer
ViewerTabs == {"Kaomoji", "Symbols"}

\* null, as a tab name
NoTab == ""

\* the loads _selectTab may start, and the writes to the tab keys, in one run
MaxSelect == 3
MaxWrites == 1

\* the tabs whose buttons are clicked, and the tabs whose keys other clients
\* write
ClickedTabs == {"Recently Used", "Kaomoji"}
WrittenTabs == {"Recently Used", "Kaomoji"}

\* the names of seq that satisfy the settings, in order
EnabledIn(settings) == SelectSeq(TAB_DEFINITIONS, LAMBDA t : settings[t])

InSeq(x, seq) == \E k \in DOMAIN seq : seq[k] = x

\* the indicator's own fields of such a record
Fields(n) == [f \in DOMAIN n \ {"settings"} |-> n[f]]

\* the indicator and the settings it reads, as one record
CurI ==
    [f \in DOMAIN indicator \cup {"settings"} |->
        IF f = "settings" THEN tabSettings ELSE indicator[f]]

SetMainTabBarVisibility(i, isVisible) ==
    IF i.destroyed THEN i ELSE [i EXCEPT !.mainTabBarVisible = isVisible]

ShouldShowTabBarForTab(i, tabName) ==
    IF ~i.hasMultipleTabs THEN FALSE
    ELSE IF tabName = NoTab THEN TRUE
    ELSE tabName \notin FULL_VIEW_TAB_IDS

\* actor.destroy(): a destroyed actor leaves its parent
DestroyActor(i, a) ==
    IF a = 0 THEN i
    ELSE [i EXCEPT !.actors[a].destroyed = TRUE,
                   !.contentChild = IF @ = a THEN 0 ELSE @]

\* a new actor of the given kind, made for the given tab
NewActor(i, kind, tabName) ==
    [i EXCEPT !.actors =
        Append(@, [kind |-> kind, tab |-> tabName, destroyed |-> FALSE])]

\* the stored signal ids are those of one actor (signalsOf); they are
\* forgotten whether or not the disconnection succeeds
DisconnectTabSignals(i, tabActor) ==
    IF tabActor = 0 THEN i
    ELSE [i EXCEPT !.signalsOf = 0]

RemoveLoadingIndicatorTimeout(i) == [i EXCEPT !.loadingIndicatorTimeout = <<>>]

IsTabEnabled(i, tabName) ==
    IF tabName \notin TabNames THEN FALSE
    ELSE IF i.destroyed THEN TRUE
    ELSE i.settings[tabName]

\* what _getEnabledTabNames returns
GetEnabledTabNames(i) ==
    IF i.destroyed THEN TAB_DEFINITIONS
    ELSE IF EnabledIn(i.settings) = <<>> THEN <<TAB_DEFINITIONS[1]>>
    ELSE EnabledIn(i.settings)

RECURSIVE UpdateTabButtonsVisibility(_)
RECURSIVE SelectTab(_, _)

\* the indicator after _getEnabledTabDefinitions: with no tab enabled the
\* first tab's key is written, and the write runs the indicator's handler of
\* changed::<key> before it returns
GetEnabledTabDefinitions(i) ==
    IF i.destroyed THEN i
    ELSE IF EnabledIn(i.settings) = <<>>
    THEN UpdateTabButtonsVisibility(
             [i EXCEPT !.settings[TAB_DEFINITIONS[1]] = TRUE])
    ELSE i

\* SwitchToFallback without the assignment of the two names
SwitchToFallback_NamesKept(i, fallbackTab) ==
    IF i.menuOpen THEN i
    ELSE [DestroyActor(DisconnectTabSignals(i, i.currentTabActor),
                       i.currentTabActor)
             EXCEPT !.currentTabActor = 0, !.contentChild = 0]

\* the branch of _updateTabButtonsVisibility for an active tab that is not
\* enabled
SwitchToFallback(i, fallbackTab) ==
    LET moved ==
            IF i.menuOpen THEN SelectTab(i, fallbackTab)
            ELSE [DestroyActor(DisconnectTabSignals(i, i.currentTabActor),
                               i.currentTabActor)
                     EXCEPT !.currentTabActor = 0, !.contentChild = 0]
        named == [moved EXCEPT !.activeTabName = fallbackTab,
                               !.lastActiveTabName = fallbackTab]
    IN  SetMainTabBarVisibility(named,
            ShouldShowTabBarForTab(named, named.activeTabName))

UpdateTabButtonsVisibility(i) ==
    IF i.destroyed THEN i
    ELSE
    LET enabledTabNames == GetEnabledTabNames(i)
        shown == [GetEnabledTabDefinitions(i) EXCEPT
                     !.hasMultipleTabs = Len(enabledTabNames) > 1,
                     !.tabButtons = [t \in TabNames |->
                         [visible |-> InSeq(t, enabledTabNames),
                          reactive |-> InSeq(t, enabledTabNames),
                          can_focus |-> InSeq(t, enabledTabNames)]]]
        switched ==
            IF InSeq(shown.activeTabName, enabledTabNames) THEN shown
            ELSE SwitchToFallback(shown, enabledTabNames[1])
        last ==
            IF InSeq(switched.lastActiveTabName, enabledTabNames) THEN switched
            ELSE [switched EXCEPT !.lastActiveTabName = enabledTabNames[1]]
    IN  IF enabledTabNames = <<>> THEN shown
        ELSE SetMainTabBarVisibility(last,
                 ShouldShowTabBarForTab(last, last.activeTabName))

\* _selectTab up to its await: the import and the construction of the tab's
\* content are a load in flight
StartLoad(i, tabName) ==
    LET oldActor == i.currentTabActor
        named == [i EXCEPT !.activeTabName = tabName,
                           !.lastActiveTabName = tabName]
        barred == SetMainTabBarVisibility(named,
                      ShouldShowTabBarForTab(named, tabName))
    IN  [barred EXCEPT
            !.loadingIndicatorTimeout =
                <<[tabName |-> tabName, oldActor |-> oldActor]>>,
            !.loads = {[l EXCEPT !.superseded = @ \/ l.tabName # tabName] :
                           l \in @}
                      \cup {[tabName |-> tabName, oldActor |-> oldActor,
                             n |-> i.started + 1, superseded |-> FALSE]},
            !.started = @ + 1]

SelectTab(i, tabName) ==
    IF ~IsTabEnabled(i, tabName)
    THEN LET enabledTabNames == GetEnabledTabNames(i)
             others == SelectSeq(enabledTabNames, LAMBDA n : n # tabName)
             fallbackTab == IF others # <<>> THEN others[1]
                            ELSE enabledTabNames[1]
         IN  IF fallbackTab = tabName THEN GetEnabledTabDefinitions(i)
             ELSE SelectTab(GetEnabledTabDefinitions(i), fallbackTab)
    ELSE IF i.activeTabName = tabName /\ i.currentTabActor # 0
    THEN i
    ELSE StartLoad(i, tabName)

\* the callback of the 150 ms timer
LoadingIndicatorCallback(i) ==
    LET c == i.loadingIndicatorTimeout[1]
        made == NewActor(i, "loading", c.tabName)
        loadingContainer == Len(made.actors)
    IN  RemoveLoadingIndicatorTimeout(
            DestroyActor([made EXCEPT !.contentChild = loadingContainer,
                                      !.currentTabActor = loadingContainer],
                         c.oldActor))

\* the catch block of _selectTab
CatchLoadError(i, load) ==
    LET cleaned == DestroyActor(RemoveLoadingIndicatorTimeout(i), load.oldActor)
        barred == SetMainTabBarVisibility(cleaned,
                      ShouldShowTabBarForTab(cleaned, cleaned.activeTabName))
        labelled == NewActor(barred, "error", load.tabName)
        errorLabel == Len(labelled.actors)
    IN  IF ~barred.destroyed /\ barred.activeTabName = load.tabName
        THEN [labelled EXCEPT !.contentChild = errorLabel,
                              !.currentTabActor = errorLabel]
        ELSE barred

\* _selectTab from the construction of the content to its end, for a content
\* actor that was built
InstallContent(i, load, newContentActor) ==
    IF i.activeTabName # load.tabName
    THEN RemoveLoadingIndicatorTimeout(DestroyActor(i, newContentActor))
    ELSE
    LET disconnected ==
            DisconnectTabSignals(RemoveLoadingIndicatorTimeout(i), load.oldActor)
        placed == [disconnected EXCEPT !.contentChild = newContentActor]
        barred == SetMainTabBarVisibility(placed,
                      ShouldShowTabBarForTab(placed, placed.activeTabName))
    IN  IF i.destroyed
        \* _tabContentArea is null: set_child throws a TypeError
        THEN CatchLoadError([disconnected EXCEPT !.nullAreaUsed = TRUE], load)
        ELSE [DestroyActor(barred, load.oldActor) EXCEPT
                 !.currentTabActor = newContentActor,
                 !.signalsOf = newContentActor,
                 !.selectTabTimeout = TRUE,
                 !.supersededInstalled = @ \/ load.superseded]

\* the outcomes of a load: the content was built, or its constructor threw
\* after it had created the actor
LoadOutcomes == {"built", "threw"}

\* the continuation of _selectTab after its await
LoadCompletes(i, load, outcome) ==
    LET taken == [i EXCEPT !.loads = @ \ {load}]
        made == NewActor(taken, "content", load.tabName)
        partial == NewActor(taken, "partial", load.tabName)
    IN  IF outcome = "built" THEN InstallContent(made, load, Len(made.actors))
        ELSE CatchLoadError(partial, load)

\* the outcomes the code of a tab allows: a viewer tab is built with the
\* extension, whose uuid its viewer reads, so it fails to build once
\* destroy() has set the indicator's _extension to null, and builds before
CanEndAs(i, load, outcome) ==
    IF load.tabName \in ViewerTabs
    THEN IF i.destroyed THEN outcome = "threw" ELSE outcome = "built"
    ELSE TRUE

\* the callback of the 10 ms timer: the current actor's onTabSelected
SelectTabTimeoutCallback(i) == [i EXCEPT !.selectTabTimeout = FALSE]

\* the open-state-changed handler, for a general open
MenuOpened(i, rememberLastTab) ==
    LET enabledTabNames == GetEnabledTabNames(i)
        read == [GetEnabledTabDefinitions(i) EXCEPT !.menuOpen = TRUE]
        targetTab ==
            IF rememberLastTab /\ read.lastActiveTabName # NoTab
               /\ InSeq(read.lastActiveTabName, enabledTabNames)
            THEN read.lastActiveTabName
            ELSE enabledTabNames[1]
    IN  [read EXCEPT !.openIdle = <<targetTab>>]

\* the idle callback the handler queued
OpenIdleCallback(i) ==
    LET run == [i EXCEPT !.openIdle = <<>>]
    IN  IF i.menuOpen THEN SelectTab(run, i.openIdle[1]) ELSE run

MenuClosed(i) == [i EXCEPT !.menuOpen = FALSE]

\* destroy(); the menu is destroyed with the button
DestroyIndicator(i) ==
    LET untimed == [RemoveLoadingIndicatorTimeout(i) EXCEPT
                       !.selectTabTimeout = FALSE]
        released == DestroyActor(
                      DisconnectTabSignals(untimed, untimed.currentTabActor),
                      untimed.currentTabActor)
    IN  [released EXCEPT !.currentTabActor = 0, !.contentChild = 0,
                        !.destroyed = TRUE, !.menuOpen = FALSE]

\* the indicator as its constructor leaves it, given the settings
NewIndicator(settings) ==
    UpdateTabButtonsVisibility(
        [settings |-> settings,
         destroyed |-> FALSE,
         tabButtons |-> [t \in TabNames |->
             [visible |-> TRUE, reactive |-> TRUE, can_focus |-> TRUE]],
         activeTabName |-> NoTab,
         lastActiveTabName |-> NoTab,
         hasMultipleTabs |-> TRUE,
         mainTabBarVisible |-> TRUE,
         menuOpen |-> FALSE,
         openIdle |-> <<>>,
         currentTabActor |-> 0,
         contentChild |-> 0,
         actors |-> <<>>,
         loads |-> {},
         loadingIndicatorTimeout |-> <<>>,
         selectTabTimeout |-> FALSE,
         signalsOf |-> 0,
         started |-> 0,
         nullAreaUsed |-> FALSE,
         supersededInstalled |-> FALSE])

\* UpdateTabToggleSensitivity with every row left sensitive
UpdateTabToggleSensitivity_AllSensitive(settings) == [t \in TabNames |-> TRUE]

\* _updateTabToggleSensitivity: which rows are sensitive, given the switches
UpdateTabToggleSensitivity(settings) ==
    LET enabledCount == Cardinality({t \in TabNames : settings[t]})
    IN  [t \in TabNames |->
            IF enabledCount = 0 THEN TRUE
            ELSE IF enabledCount = 1 THEN ~settings[t]
            ELSE TRUE]

\* the values the preferences write to clear-recents-trigger, and one other
TriggerValues ==
    {"all", "emoji", "gif", "kaomoji", "symbols", "clipboard-history",
     "clipboard-pinned", "gif-cache", "other"}

\* the keys of RECENT_FILES_MAP
RECENT_FILES_MAP == {"emoji", "gif", "kaomoji", "symbols"}

\* what the triggers clear: the recent files, the clipboard manager's
\* history and pinned items, the GIF cache
Stores == RECENT_FILES_MAP \cup {"clipboard-history", "clipboard-pinned", "gif-cache"}

\* the writes of a trigger value in one run
MaxTriggers == 2

\* the extension's view of the trigger, as one record
CurE ==
    [trigger |-> clearRecentsTrigger, signals |-> triggerSignals,
     stores |-> stores]

\* _clearRecentFile, and the collaborators' clearHistory, clearPinned and
\* clearCache: the store is left empty
ClearStore(e, key) == [e EXCEPT !.stores[key] = FALSE]

\* settings.set_string('clear-recents-trigger', value): the key changes and
\* its change is notified
SetTrigger(e, value) == [e EXCEPT !.trigger = value, !.signals = @ + 1]

\* OnClearRecentsTrigger without the return on the empty string
OnClearRecentsTrigger_EmptyHandled(e) == SetTrigger(e, "")

OnClearRecentsTrigger(e) ==
    IF e.trigger = "" THEN e
    ELSE
    LET cleared ==
            IF e.trigger = "all"
            THEN [e EXCEPT !.stores =
                     [s \in Stores |-> IF s \in RECENT_FILES_MAP THEN FALSE
                                       ELSE @[s]]]
            ELSE IF e.trigger \in RECENT_FILES_MAP THEN ClearStore(e, e.trigger)
            ELSE IF e.trigger = "clipboard-history" THEN ClearStore(e, e.trigger)
            ELSE IF e.trigger = "clipboard-pinned" THEN ClearStore(e, e.trigger)
            ELSE IF e.trigger = "gif-cache" THEN ClearStore(e, e.trigger)
            ELSE e
    IN  SetTrigger(cleared, "")

----------------------------------------------------------------------------
\* The steps of the indicator, the preferences and the extension

\* the actors some field, load or timer still refers to
Referenced(i) ==
    ({i.currentTabActor, i.contentChild, i.signalsOf}
        \cup {l.oldActor : l \in i.loads}
        \cup {c.oldActor : c \in Range(i.loadingIndicatorTimeout)}) \ {0}

\* the state with the destroyed actors nothing refers to forgotten, the
\* others keeping their order: an actor's index is only its identity
Collect(i) ==
    LET keep == {a \in DOMAIN i.actors :
                    ~i.actors[a].destroyed \/ a \in Referenced(i)}
        renamed(a) == IF a = 0 THEN 0
                      ELSE Cardinality({b \in keep : b <= a})
        old(k) == CHOOSE a \in keep : renamed(a) = k
    IN  [i EXCEPT
            !.actors = [k \in 1..Cardinality(keep) |-> i.actors[old(k)]],
            !.currentTabActor = renamed(@),
            !.contentChild = renamed(@),
            !.signalsOf = renamed(@),
            !.loads = {[l EXCEPT !.oldActor = renamed(@)] : l \in @},
            !.loadingIndicatorTimeout =
                [k \in DOMAIN @ |-> [@[k] EXCEPT !.oldActor = renamed(@)]]]

CommitI(n, writer) ==
    /\ indicator' = Fields(Collect(n))
    /\ tabSettings' = n.settings
    /\ rowSensitive' = UpdateTabToggleSensitivity(n.settings)
    /\ lastWriter' = (IF n.settings # tabSettings THEN writer ELSE lastWriter)
    /\ UNCHANGED <<viewerVars, masonryVars, triggerVars>>

\* a write to a tab's key from outside the indicator: the bound rows follow,
\* each notify::active recomputes the sensitivity, and the indicator's
\* handler of changed::<key> is due
WriteTabKey(t, writer) ==
    /\ tabWrites < MaxWrites
    /\ tabSettings' = [tabSettings EXCEPT ![t] = ~@]
    /\ rowSensitive' = UpdateTabToggleSensitivity(tabSettings')
    /\ lastWriter' = writer
    /\ tabWrites' = tabWrites + 1
    /\ settingsChanged' = ~indicator.destroyed
    /\ UNCHANGED <<indicator, viewerVars, masonryVars, triggerVars>>

\* the user flips the switch of a sensitive row of the preferences
ToggleRowAct == \E t \in TabNames : rowSensitive[t] /\ WriteTabKey(t, "prefs")

\* a tab's key is written by another client of the settings
ExternalWriteAct == \E t \in WrittenTabs : WriteTabKey(t, "external")

\* the indicator's handler of changed::<key>
SettingsChangedAct ==
    /\ settingsChanged
    /\ ~indicator.destroyed
    /\ CommitI(UpdateTabButtonsVisibility(CurI), "indicator")
    /\ settingsChanged' = FALSE
    /\ UNCHANGED tabWrites

\* a tab button is clicked
TabButtonClickedAct ==
    \E t \in ClickedTabs :
        /\ ~indicator.destroyed
        /\ indicator.menuOpen
        /\ indicator.tabButtons[t].visible /\ indicator.tabButtons[t].reactive
        /\ indicator.started < MaxSelect
        /\ CommitI(SelectTab(CurI, t), "indicator")
        /\ UNCHANGED <<settingsChanged, tabWrites>>

OpenMenuAct ==
    \E rememberLastTab \in BOOLEAN :
        /\ ~indicator.destroyed
        /\ ~indicator.menuOpen
        /\ indicator.openIdle = <<>>
        /\ CommitI(MenuOpened(CurI, rememberLastTab), "indicator")
        /\ UNCHANGED <<settingsChanged, tabWrites>>

OpenIdleAct ==
    /\ indicator.openIdle # <<>>
    /\ indicator.started < MaxSelect
    /\ CommitI(OpenIdleCallback(CurI), "indicator")
    /\ UNCHANGED <<settingsChanged, tabWrites>>

CloseMenuAct ==
    /\ indicator.menuOpen
    /\ CommitI(MenuClosed(CurI), "indicator")
    /\ UNCHANGED <<settingsChanged, tabWrites>>

LoadingIndicatorAct ==
    /\ indicator.loadingIndicatorTimeout # <<>>
    /\ CommitI(LoadingIndicatorCallback(CurI), "indicator")
    /\ UNCHANGED <<settingsChanged, tabWrites>>

SelectTabTimeoutAct ==
    /\ indicator.selectTabTimeout
    /\ CommitI(SelectTabTimeoutCallback(CurI), "indicator")
    /\ UNCHANGED <<settingsChanged, tabWrites>>

LoadCompletesAct ==
    \E load \in indicator.loads, outcome \in LoadOutcomes :
        /\ CanEndAs(CurI, load, outcome)
        /\ CommitI(LoadCompletes(CurI, load, outcome), "indicator")
        /\ UNCHANGED <<settingsChanged, tabWrites>>

\* destroy(): the handlers of changed::<key> are disconnected
DestroyIndicatorAct ==
    /\ ~indicator.destroyed
    /\ CommitI(DestroyIndicator(CurI), "indicator")
    /\ settingsChanged' = FALSE
    /\ UNCHANGED tabWrites

\* the preferences and the indicator that follows the settings
NextPrefs ==
    \/ ToggleRowAct
    \/ ExternalWriteAct
    \/ SettingsChangedAct
    \/ OpenMenuAct
    \/ OpenIdleAct
    \/ CloseMenuAct
    \/ LoadingIndicatorAct

\* the tabs selected and loaded under settings that stay as they are
NextIndicator ==
    \/ TabButtonClickedAct
    \/ OpenMenuAct
    \/ OpenIdleAct
    \/ CloseMenuAct
    \/ LoadingIndicatorAct
    \/ SelectTabTimeoutAct
    \/ LoadCompletesAct
    \/ DestroyIndicatorAct

CommitE(n) ==
    /\ clearRecentsTrigger' = n.trigger
    /\ triggerSignals' = n.signals
    /\ stores' = n.stores
    /\ UNCHANGED <<viewerVars, masonryVars, shellVars>>

\* the preferences' Clear button, confirmed
WriteTriggerAct ==
    \E value \in TriggerValues :
        /\ triggerWrites < MaxTriggers
        /\ CommitE(SetTrigger(CurE, value))
        /\ triggerWrites' = triggerWrites + 1
        /\ UNCHANGED triggerRuns

\* changed::clear-recents-trigger reaches the extension's handler
TriggerChangedAct ==
    /\ triggerSignals > 0
    /\ CommitE(OnClearRecentsTrigger([CurE EXCEPT !.signals = @ - 1]))
    /\ triggerRuns' = triggerRuns + 1
    /\ UNCHANGED triggerWrites

\* the user's picks and copies fill a store again
FillStoreAct ==
    \E s \in Stores :
        /\ ~stores[s]
        /\ CommitE([CurE EXCEPT !.stores[s] = TRUE])
        /\ UNCHANGED <<triggerWrites, triggerRuns>>

NextTrigger == WriteTriggerAct \/ TriggerChangedAct \/ FillStoreAct

\* the indicator built on the settings, every store filled, no trigger
InitShellWith(settingsSet) ==
    /\ \E s \in settingsSet :
           /\ tabSettings = NewIndicator(s).settings
           /\ indicator = Fields(NewIndicator(s))
    /\ rowSensitive = UpdateTabToggleSensitivity(tabSettings)
    /\ settingsChanged = FALSE
    /\ lastWriter = "none"
    /\ tabWrites = 0
    /\ clearRecentsTrigger = ""
    /\ triggerSignals = 0
    /\ stores = [s \in Stores |-> TRUE]
    /\ triggerWrites = 0
    /\ triggerRuns = 0

\* every tab enabled
AllTabsEnabled == [t \in TabNames |-> TRUE]

InitShell == InitShellWith({AllTabsEnabled})

----------------------------------------------------------------------------
vars == <<viewerVars, masonryVars, shellVars, triggerVars>>

\* the constructor's defaults: columns = 4, spacing = 2
DefaultLayout == {<<4, 2>>}

Init ==
    /\ InitViewer(SmallDataSets, BOOLEAN)
    /\ tracing = FALSE
    /\ InitMasonry(DefaultLayout)
    /\ InitShell

Next == NextViewer

Spec == Init /\ [][Next]_vars

InitRender ==
    /\ InitViewer({BigData}, {FALSE})
    /\ recents = <<1>>
    /\ tracing = FALSE
    /\ InitMasonry(DefaultLayout)
    /\ InitShell

SpecRender == InitRender /\ [][NextRender]_vars

\* the render passes alone, the idle callbacks being dispatched whenever one
\* stays pending (GLib runs an idle source once the main loop has nothing of
\* higher priority to do)
NextLive ==
    \/ OnSelectedAct
    \/ LoadSucceedsAct
    \/ ClickTabAct
    \/ RerenderGridAct
    \/ RunIdleChunkAct
    \/ DestroyAct

SpecLive == InitRender /\ [][NextLive]_vars /\ WF_vars(RunIdleChunkAct)

InitLoad ==
    /\ InitViewer(AllDataSets, BOOLEAN)
    /\ tracing = TRUE
    /\ InitMasonry(DefaultLayout)
    /\ InitShell

SpecLoad == InitLoad /\ [][NextLoad]_vars

\* construction with and without the required keys, and the load after it
InitConfig ==
    /\ InitViewer(AllDataSets, BOOLEAN) \/ MisconfiguredViewer(AllDataSets)
    /\ tracing = TRUE
    /\ InitMasonry(DefaultLayout)
    /\ InitShell

SpecConfig == InitConfig /\ [][NextLoad]_vars

\* the viewer with a render function that gives no button for one item of the
\* dataset, in the middle of its category
FalsyData ==
    <<Item(cat1, <<"A">>), Item(cat1, Unrenderable), Item(cat1, <<"B">>),
      Item(cat2, <<"C">>)>>

InitFalsy ==
    /\ InitViewer({FalsyData}, {FALSE})
    /\ tracing = TRUE
    /\ InitMasonry(DefaultLayout)
    /\ InitShell

SpecFalsy == InitFalsy /\ [][NextViewer]_vars

\* the viewer of Spec with the trace of each handler kept
InitTraced ==
    /\ InitViewer(SmallDataSets, {FALSE})
    /\ tracing = TRUE
    /\ InitMasonry(DefaultLayout)
    /\ InitShell

SpecTraced == InitTraced /\ [][NextViewer]_vars

\* the viewer of SpecRender with the trace of each handler kept
InitDestroy ==
    /\ InitViewer({BigData}, {FALSE})
    /\ recents = <<1>>
    /\ tracing = TRUE
    /\ InitMasonry(DefaultLayout)
    /\ InitShell

SpecDestroy == InitDestroy /\ [][NextRender]_vars

\* the keys of the grid: the viewer on a dataset of one category that fills
\* two rows of the longer row length and begins a third, for both row lengths
GridLen == (2 * SymbolsItemsPerRow) + 1

GridData == [i \in 1..GridLen |-> Item(cat1, <<"A">>)]

InitGrid ==
    /\ ConfiguredViewer({GridData}, {FALSE},
                        {KaomojiItemsPerRow, SymbolsItemsPerRow})
    /\ recents = <<1>>
    /\ tracing = FALSE
    /\ InitMasonry(DefaultLayout)
    /\ InitShell

NextGrid ==
    \/ OnSelectedAct
    \/ LoadSucceedsAct
    \/ ClickTabAct
    \/ FocusGridAct
    \/ GridKeyPressAct

SpecGrid == InitGrid /\ [][NextGrid]_vars

\* the layouts packed: two or three columns, without and with spacing
Layouts == {<<2, 0>>, <<2, 2>>, <<3, 2>>}

InitPack ==
    /\ InitViewer({<<>>}, {FALSE})
    /\ recents = <<>>
    /\ tracing = FALSE
    /\ InitMasonry(Layouts)
    /\ InitShell

SpecMasonry == InitPack /\ [][NextMasonry]_vars

\* Deferred packing: layouts through widths too small to pack, one of them
\* with a spacing that leaves no room for a column at a small valid width
DeferKinds == { Sized(Num(100), Num(50)), Sized(Num(100), Num(200)) }

DeferBatches == UNION {[1..n -> DeferKinds] : n \in 1..MaxBatch}

DeferWidths == {20, 30, 33, 216}

DeferLayouts == {<<2, 2>>, <<3, 10>>}

AddSizedItemsAct == AddItemsFrom(DeferBatches)

ResizeAct == AllocateTo(DeferWidths)

InitDefer ==
    /\ InitViewer({<<>>}, {FALSE})
    /\ recents = <<>>
    /\ tracing = FALSE
    /\ InitMasonry(DeferLayouts)
    /\ InitShell

NextDefer ==
    \/ AddSizedItemsAct
    \/ ResizeAct
    \/ ClearAct
    \/ DeferTimeoutAct
    \/ DestroyMasonryAct

SpecDefer == InitDefer /\ [][NextDefer]_vars

\* Keyboard navigation: layouts of up to MaxNavItems items of two heights, at a
\* narrow and at a wide width
MaxNavItems == 5

NavKinds == { Sized(Num(100), Num(50)), Sized(Num(100), Num(200)) }

NavWidths == {38, 216}

NavLayouts == {<<2, 2>>, <<3, 0>>}

\* a caller hands one more item to addItems
AddNavItemAct ==
    \E kind \in NavKinds :
        /\ Len(items) < MaxNavItems
        /\ IsValidWidth(CurM)
        /\ CommitM(Noting(AddItems(CurM, <<kind>>), Retained(CurM) \o <<kind>>))

\* the first allocation of the layout
NavAllocateAct ==
    /\ width = 0
    /\ AllocateTo(NavWidths)

\* the key focus moves to a child, or away from the layout, by other means
FocusAct ==
    \E k \in 0..Len(children) :
        /\ k # keyFocus \/ keySymbol # "none"
        /\ CommitM([CurM EXCEPT !.keyFocus = k,
                                !.keySymbol = "none",
                                !.keyFocusBefore = 0,
                                !.keyResult = "none"])

\* a key is pressed while the layout has the event
KeyPressAct ==
    \E symbol \in Keys :
        /\ keyFocus \in 0..Len(children)
        /\ CommitM(OnKeyPress(CurM, BuildSpatialMap(CurM), symbol))

InitNav ==
    /\ InitViewer({<<>>}, {FALSE})
    /\ recents = <<>>
    /\ tracing = FALSE
    /\ InitMasonry(NavLayouts)
    /\ InitShell

NextNav ==
    \/ AddNavItemAct
    \/ NavAllocateAct
    \/ FocusAct
    \/ KeyPressAct

SpecNav == InitNav /\ [][NextNav]_vars

----------------------------------------------------------------------------
(* Properties of the viewer *)

\* seq lists the members of S once each, in dataset order
ListsInOrder(seq, S) ==
    /\ Range(seq) = S
    /\ \A i, j \in DOMAIN seq : i < j => seq[i] < seq[j]

\* the positions of the dataset items of category c
ItemsOfCategory(c) == {i \in DOMAIN mainData : mainData[i].cat = c}

\* the positions of the dataset items the search predicate accepts
ItemsMatching(text) ==
    {i \in DOMAIN mainData : SearchFilterFn(mainData[i], text)}

\* the items the grid's buttons stand for, in order
ButtonItems == [k \in DOMAIN gridAllButtons |-> gridAllButtons[k].item]

\* the displayed list is the one of category tab c
DisplaysCategory(c) ==
    IF c = RECENTS_TAB_ID THEN filteredData = recents
    ELSE ListsInOrder(filteredData, ItemsOfCategory(c))

\* C1: when the normalized search text goes from non-empty to empty, the
\* active category is again the one that was active when the search began,
\* and the render that follows displays that category's list.
C1_SearchClearRestoresCategory ==
    /\ searchPhase \in {"cleared", "restored"} =>
           /\ activeCategory = preSearchCategory
           /\ currentSearchText = <<>>
    /\ searchPhase = "restored" =>
           /\ DisplaysCategory(preSearchCategory)
           /\ onStage => ButtonItems = filteredData

C1_Witness ==
    /\ searchPhase = "restored"
    /\ preSearchCategory = cat2
    /\ filteredData # <<>>
    /\ ButtonItems = filteredData

\* the list one filter rule prescribes for the current state
FilterRuleHolds ==
    IF Len(currentSearchText) > 0
    THEN ListsInOrder(filteredData, ItemsMatching(currentSearchText))
    ELSE IF activeCategory = RECENTS_TAB_ID
    THEN filteredData = recents
    ELSE ListsInOrder(filteredData, ItemsOfCategory(activeCategory))

\* C2: every render computes the displayed list by exactly one rule: with a
\* non-empty search text, all items of the whole dataset the predicate
\* accepts, whatever the active category; otherwise the recents list when
\* the Recents tab is active; otherwise the items of the active category,
\* in dataset order.
C2_FilterRule ==
    [][renderSession' # renderSession => (isContentLoaded' /\ FilterRuleHolds')]_vars

C2_Witness ==
    /\ isContentLoaded
    /\ Len(currentSearchText) > 0
    /\ activeCategory \in Range(categoriesFromJSON)
    /\ filteredData # <<>>
    /\ ListsInOrder(filteredData, ItemsMatching(currentSearchText))
    /\ \E i \in Range(filteredData) : mainData[i].cat # activeCategory
    /\ ButtonItems = filteredData

\* C3: a chunk callback of a superseded render session changes nothing, and
\* no button of a superseded session is ever in the grid or in the
\* navigation list.
C3_SupersededChunksAreNoOps ==
    /\ [](\A k \in DOMAIN gridAllButtons :
             gridAllButtons[k].session = renderSession)
    /\ [](staleAttached = 0)
    /\ [][\A c \in idleChunks \ idleChunks' :
             c.session # renderSession =>
                 /\ gridAllButtons' = gridAllButtons
                 /\ filteredData' = filteredData
                 /\ renderSession' = renderSession
                 /\ chunkLog' = chunkLog
                 /\ idleChunks' = idleChunks \ {c}]_vars

C3_Witness ==
    /\ staleRan
    /\ gridAllButtons # <<>>
    /\ \E c \in idleChunks : c.session = renderSession

\* the pending chunk callbacks of the current session
CurrentChunks == {c \in idleChunks : c.session = renderSession}

\* C4: a render pass over L > 0 items runs its chunks in ascending index
\* order, chunk k covering [36(k-1), min(36k, L)), each next chunk scheduled
\* where the last one ended, ceil(L/36) chunks in all when the pass is not
\* superseded and the surface stays alive.
C4_ChunkCountAndOrder ==
    LET L == Len(filteredData)
        done == IF chunkLog = <<>> THEN 0 ELSE chunkLog[Len(chunkLog)][2]
    IN  /\ \A k \in DOMAIN chunkLog :
               chunkLog[k] = <<itemsPerChunk * (k - 1), Min(itemsPerChunk * k, L)>>
        /\ gridAllButtons =
               [i \in 1..done |-> [item |-> filteredData[i], session |-> renderSession]]
        /\ Cardinality(CurrentChunks) <= 1
        /\ \A c \in CurrentChunks : chunkLog # <<>> /\ c.startIndex = done /\ done < L
        /\ (renderSession # 0 /\ onStage /\ L > 0 /\ CurrentChunks = {}) =>
               /\ Len(chunkLog) = (L + itemsPerChunk - 1) \div itemsPerChunk
               /\ done = L

C4_Witness ==
    /\ onStage
    /\ Len(filteredData) = BigLen
    /\ CurrentChunks = {}
    /\ Len(chunkLog) = 3
    /\ Len(gridAllButtons) = BigLen

\* C5: the search input is debounced with a quiet period of 250 ms: a burst
\* of triggers is followed by exactly one callback, which runs only once
\* 250 ms have passed without a trigger.
C5_DebouncedSearch ==
    /\ DebounceMs = 250
    /\ callbacksSinceTrigger <= 1
    /\ callbacksSinceTrigger = 1 => sinceTrigger >= DebounceMs
    /\ (burst >= 1 /\ debounceTimer = -1 /\ ~debouncerDestroyed) =>
           callbacksSinceTrigger = 1
    /\ debounceTimer > 0 => callbacksSinceTrigger = 0

C5_Witness ==
    /\ burst = 2
    /\ callbacksSinceTrigger = 1
    /\ sinceTrigger = DebounceMs
    /\ debounceTimer = -1

\* the category values that occur in the dataset
CategoryValues == {dataset[i].cat : i \in DOMAIN dataset}

\* the position at which category c first appears in the dataset
FirstAppearance(c) ==
    CHOOSE i \in DOMAIN dataset :
        dataset[i].cat = c /\ \A j \in 1..(i - 1) : dataset[j].cat # c

\* tabs after the leading entry list the categories cs once each, in
\* first-appearance order, or in lexicographic order when sorting is on
TabsList(cs) ==
    LET cats == Tail(allDisplayableTabs)
    IN  /\ Range(cats) = cs
        /\ \A i, j \in DOMAIN cats : i # j => cats[i] # cats[j]
        /\ \A i, j \in DOMAIN cats :
               i < j => IF sortCategories
                        THEN StrLess(cats[i], cats[j])
                        ELSE FirstAppearance(cats[i]) < FirstAppearance(cats[j])

\* C6 as stated: after a load every distinct category value of the dataset
\* is a tab exactly once, in first-appearance order, or in lexicographic
\* order when sorting is on.
C6_AllCategoryValues ==
    isContentLoaded => TabsList(CategoryValues)

\* C6: after a load every distinct non-empty category value of the dataset
\* is a tab exactly once, in first-appearance order, or in lexicographic
\* order when sorting is on; an item whose category is empty or missing
\* contributes no tab.
C6_NonEmptyCategoryValues ==
    isContentLoaded =>
        /\ allDisplayableTabs # <<>>
        /\ TabsList(CategoryValues \ {NoCat})
        /\ categoriesFromJSON = Tail(allDisplayableTabs)

C6_Witness ==
    /\ isContentLoaded
    /\ sortCategories
    /\ Len(dataset) = 3
    /\ Len(categoriesFromJSON) = 2
    /\ FirstAppearance(categoriesFromJSON[1]) > FirstAppearance(categoriesFromJSON[2])

----------------------------------------------------------------------------
(* Properties of the masonry layout *)

\* the column heights once child k has been placed
HeightsAfter(k) ==
    [heightsAtPlacement[k] EXCEPT
        ![children[k].column + 1] = @ + children[k].height + spacing]

\* C8: at every placement the chosen column has the minimum accumulated
\* height of all columns at that moment, and no column of a lower index has
\* that height.
C8_ShortestColumnLowestIndex ==
    /\ Len(heightsAtPlacement) = Len(children)
    /\ \A k \in DOMAIN children :
           LET before == heightsAtPlacement[k]
               c == children[k].column + 1
           IN  /\ c \in 1..columns
               /\ \A j \in 1..columns : before[c] <= before[j]
               /\ \A j \in 1..(c - 1) : before[j] > before[c]

C8_Witness ==
    /\ columns = 3
    /\ \E k \in DOMAIN children :
           /\ children[k].column = 1
           /\ heightsAtPlacement[k][1] > heightsAtPlacement[k][2]
           /\ heightsAtPlacement[k][2] = heightsAtPlacement[k][3]
    /\ \E k \in DOMAIN children :
           /\ children[k].column = 2
           /\ heightsAtPlacement[k][3] < heightsAtPlacement[k][2]

\* round(Cw * H / W) in exact arithmetic, a tie going up, for positive H, W
ExactRound(cw, w, h) == (2 * cw * h + w) \div (2 * w)

\* the item's computed height is non-finite or <= 0, or one of its
\* dimensions is missing or zero
NotPlaceable(itemData, cw) ==
    \/ itemData.width.k # "num" \/ itemData.width.v = 0
    \/ itemData.height.k # "num" \/ itemData.height.v = 0
    \/ CalculateItemHeight(itemData, cw).k # "num"
    \/ CalculateItemHeight(itemData, cw).v <= 0

\* the column width the layout packs with at its present width
ColumnWidthNow == CalculateColumnWidth(CurM, CalculateEffectiveWidth(CurM))

\* the layout packed from empty with the list its
PackedFromEmpty(its) == RenderItems(Clear(CurM), its, ColumnWidthNow)

\* no item that cannot be placed is placed, and the column heights are those
\* of packing the list without such items
UnplaceableItemsLeaveNoTrace ==
    /\ \A k \in DOMAIN children :
           ~NotPlaceable(children[k].item, children[k].width)
    /\ IsValidWidth(CurM) =>
           LET kept == SelectSeq(items, LAMBDA it : ~NotPlaceable(it, ColumnWidthNow))
           IN  /\ [k \in DOMAIN children |-> children[k].item] = kept
               /\ columnHeights = PackedFromEmpty(kept).columnHeights
               /\ children = PackedFromEmpty(kept).children
    /\ ~IsValidWidth(CurM) => children = <<>>

\* every placed item has the height round(Cw * H / W)
PlacedHeightsAreExact ==
    \A k \in DOMAIN children :
        children[k].height =
            ExactRound(children[k].width, children[k].item.width.v,
                       children[k].item.height.v)

\* C9 as stated: the placed height of an item (W, H) in a column of width Cw
\* is round(Cw * H / W); an item whose computed height is non-finite or <= 0,
\* or with a missing or zero dimension, is never placed and leaves the column
\* heights as if it had not been in the input.
C9_HeightFormula ==
    /\ PlacedHeightsAreExact
    /\ UnplaceableItemsLeaveNoTrace

\* a 40x23 item in a column 100 wide is placed 57 high, where 100 * 23 / 40
\* is 57.5, and an unplaceable item has been passed over
C9_Witness ==
    /\ \E k \in DOMAIN children :
           /\ children[k].item = Sized(Num(40), Num(23))
           /\ children[k].width = 100
           /\ children[k].height = 57
           /\ ExactRound(100, 40, 23) = 58
    /\ \E i \in DOMAIN items : NotPlaceable(items[i], ColumnWidthNow)

\* C10: a placed item has the y of its column's accumulated height before
\* the placement and the x of that column's offset; the column then grows by
\* the item's height plus the spacing; the container height is the largest
\* accumulated column height.  With two columns, no spacing and a column
\* width of 100, the items 100x50, 100x200, 100x50 go to column 0 at y 0 with
\* height 50, column 1 at y 0 with height 200, column 0 at y 50 with height
\* 50, and the container height is 200.
C10_PlacementAndContainerHeight ==
    /\ \A k \in DOMAIN children :
           /\ children[k].y = heightsAtPlacement[k][children[k].column + 1]
           /\ children[k].x =
                  PaddingLeft + children[k].column * (children[k].width + spacing)
           /\ IF k < Len(children)
              THEN heightsAtPlacement[k + 1] = HeightsAfter(k)
              ELSE columnHeights = HeightsAfter(k)
    /\ children # <<>> => heightsAtPlacement[1] = ZeroHeights(columns)
    /\ children = <<>> => columnHeights = ZeroHeights(columns)
    /\ height = SeqMax(columnHeights)
    /\ (/\ columns = 2 /\ spacing = 0 /\ width = 216
        /\ items = <<Sized(Num(100), Num(50)), Sized(Num(100), Num(200)),
                     Sized(Num(100), Num(50))>>) =>
           /\ ColumnWidthNow = 100
           /\ [k \in DOMAIN children |->
                  <<children[k].column, children[k].y, children[k].height>>]
                  = << <<0, 0, 50>>, <<1, 0, 200>>, <<0, 50, 50>> >>
           /\ height = 200

C10_Witness ==
    /\ columns = 2 /\ spacing = 0 /\ width = 216
    /\ items = <<Sized(Num(100), Num(50)), Sized(Num(100), Num(200)),
                 Sized(Num(100), Num(50))>>
    /\ Len(children) = 3
    /\ children[3].column = 0 /\ children[3].y = 50
    /\ height = 200

\* every placed item has the height h
AllPlacedHeights(h) == \A k \in DOMAIN children : children[k].height = h

\* any two accumulated column heights differ by at most d
ColumnsWithin(d) ==
    \A i, j \in 1..columns : columnHeights[i] - columnHeights[j] <= d

\* C11 as stated: when all placed items have the same height h, any two
\* accumulated column heights differ by at most h.
C11_ColumnsWithinItemHeight ==
    \A k \in DOMAIN children :
        AllPlacedHeights(children[k].height) => ColumnsWithin(children[k].height)

\* C11: when all placed items have the same height h, any two accumulated
\* column heights differ by at most h plus the spacing, the amount by which
\* one placement raises a column.
C11_ColumnsWithinItemHeightPlusSpacing ==
    \A k \in DOMAIN children :
        AllPlacedHeights(children[k].height) =>
            ColumnsWithin(children[k].height + spacing)

C11_Witness ==
    /\ spacing = 2
    /\ Len(children) = 3
    /\ AllPlacedHeights(children[1].height)
    /\ \E i, j \in 1..columns :
           columnHeights[i] - columnHeights[j] = children[1].height + spacing

\* Properties of the deferred packing and of the re-layout

\* the layout m can pack: its width and its column width are usable
CanPack(m) ==
    /\ IsValidWidth(m)
    /\ IsValidEffectiveWidth(CalculateEffectiveWidth(m))
    /\ IsValidColumnWidth(CalculateColumnWidth(m, CalculateEffectiveWidth(m)))

\* its packed into the layout m emptied, at the width of m
PackedInto(m, its) ==
    UpdateContainerHeight(
        RenderItems(Clear(m), its,
                    CalculateColumnWidth(m, CalculateEffectiveWidth(m))))

\* the layout shows exactly the packing p
ShowsPacking(m, p) ==
    /\ m.items = p.items
    /\ m.children = p.children
    /\ m.columnHeights = p.columnHeights
    /\ m.height = p.height

\* C12 as stated: a width change on a layout holding a non-empty list leaves
\* the list as it was and, at a width that can be packed, leaves the layout
\* showing the whole list packed from empty at the new width.
C12_WidthChangeRepacksRetainedList ==
    [][(width' # width /\ Retained(CurM) # <<>>) =>
          /\ Retained(CurM') = Retained(CurM)
          /\ CanPack(CurM') =>
                 ShowsPacking(CurM', PackedInto(CurM', Retained(CurM)))]_vars

\* the part of C12 that holds: a width change between two widths that can both
\* be packed re-packs the whole list from empty
RepackedBetweenPackableWidths ==
    [][(width' # width /\ items # <<>> /\ CanPack(CurM) /\ CanPack(CurM')) =>
          ShowsPacking(CurM', PackedInto(CurM', items))]_vars

C12_Witness ==
    /\ width = 30
    /\ dropped
    /\ Retained(CurM) = <<>>
    /\ pendingAllocationId = 0

\* C13 as stated: no item handed to addItems is dropped; while the layout
\* cannot pack, the items it was handed wait in the pending callbacks.
C13_DeferredItemsAreKept ==
    /\ ~dropped
    /\ (~CanPack(CurM) /\ Retained(CurM) # <<>>) =>
           pendingAllocationId # 0 /\ pendingTimeoutId # 0

\* the part of C13 that holds: a width notification at which the layout can
\* pack carries out the deferred packing, and leaves nothing pending
DeferredBatchPackedOnValidWidth ==
    [][(pendingAllocationId # 0 /\ width' # width /\ CanPack(CurM')) =>
          /\ ShowsPacking(CurM', PackedInto(CurM', Retained(CurM)))
          /\ pendingAllocationId' = 0
          /\ pendingTimeoutId' = 0]_vars

C13_Witness ==
    /\ dropped
    /\ width = 0
    /\ items = <<>>
    /\ DOMAIN timeouts = {}

\* C14: at every moment at most one fallback timeout is scheduled and at most
\* one width handler is connected, they are the two the layout's fields name,
\* and they are pending together or not at all; whenever a packing began, no
\* callback was pending any more.
C14_OneDeferredAttempt ==
    /\ Cardinality(DOMAIN timeouts) <= 1
    /\ Cardinality(DOMAIN handlers) <= 1
    /\ DOMAIN timeouts = {pendingTimeoutId} \ {0}
    /\ DOMAIN handlers = {pendingAllocationId} \ {0}
    /\ (pendingTimeoutId = 0) = (pendingAllocationId = 0)
    /\ pendingAtPacking = 0

C14_Witness ==
    /\ pendingTimeoutId # 0
    /\ pendingAllocationId # 0
    /\ Len(handlers[pendingAllocationId]) = MaxBatch
    /\ dropped

\* Properties of the keyboard navigation of the masonry layout

ArrowKeys == {"KEY_Up", "KEY_Down", "KEY_Left", "KEY_Right"}

\* the step is _onKeyPress handling the key symbol
KeyStep(symbol) ==
    /\ keySymbol' = symbol
    /\ keyFocusBefore' = keyFocus
    /\ UNCHANGED <<children, items, width>>

\* the item is flagged as touching the boundary on the side of the key
FlaggedAt(item, symbol) ==
    \/ symbol = "KEY_Up" /\ item.isTopEdge
    \/ symbol = "KEY_Down" /\ item.isBottomEdge
    \/ symbol = "KEY_Left" /\ item.isLeftEdge
    \/ symbol = "KEY_Right" /\ item.isRightEdge

\* the items other than from whose centre lies strictly on the side of the key
OnSide(map, from, symbol) ==
    {k \in DOMAIN map \ {from} :
        \/ symbol = "KEY_Up" /\ map[k].centerY2 < map[from].centerY2
        \/ symbol = "KEY_Down" /\ map[k].centerY2 > map[from].centerY2
        \/ symbol = "KEY_Left" /\ map[k].centerX2 < map[from].centerX2
        \/ symbol = "KEY_Right" /\ map[k].centerX2 > map[from].centerX2}

CentreDx2(map, a, b) == Abs(map[a].centerX2 - map[b].centerX2)

CentreDy2(map, a, b) == Abs(map[a].centerY2 - map[b].centerY2)

\* the candidates of a horizontal move: those on the side whose horizontal
\* centre distance is less than the least such distance plus the tolerance
NextColumn(map, from, symbol) ==
    {k \in OnSide(map, from, symbol) :
        \A j \in OnSide(map, from, symbol) :
            CentreDx2(map, k, from)
                < CentreDx2(map, j, from) + (2 * ColumnTolerance)}

\* the height of the common part of the vertical extents of two items
Overlap(map, a, b) ==
    Max(0, Min(map[a].y2, map[b].y2) - Max(map[a].y1, map[b].y1))

\* the target of a horizontal move as the claim C16 has it
IsHorizontalTarget(map, from, symbol, target) ==
    /\ target \in NextColumn(map, from, symbol)
    /\ IF \E k \in NextColumn(map, from, symbol) : Overlap(map, from, k) > 0
       THEN \A k \in NextColumn(map, from, symbol) :
                Overlap(map, from, k) <= Overlap(map, from, target)
       ELSE \A k \in NextColumn(map, from, symbol) :
                CentreDy2(map, from, target) <= CentreDy2(map, from, k)

\* C16 as stated: Left or Right from an item that is not flagged on that side
\* moves the focus to the item of the next column with the greatest vertical
\* overlap or, if none overlaps, to the one with the nearest vertical centre.
C16_HorizontalTarget ==
    [][\A symbol \in {"KEY_Left", "KEY_Right"} :
          (/\ KeyStep(symbol)
           /\ keyFocus \in DOMAIN children
           /\ ~FlaggedAt(BuildSpatialMap(CurM)[keyFocus], symbol)
           /\ OnSide(BuildSpatialMap(CurM), keyFocus, symbol) # {}) =>
              IsHorizontalTarget(BuildSpatialMap(CurM), keyFocus, symbol,
                                 keyFocus')]_vars

\* what the code does instead: the target is the first placed of the items of
\* the next column with the greatest overlap, even when that overlap is 0
HorizontalTargetIsFirstOfGreatestOverlap ==
    [][\A symbol \in {"KEY_Left", "KEY_Right"} :
          (/\ KeyStep(symbol)
           /\ keyFocus \in DOMAIN children
           /\ ~FlaggedAt(BuildSpatialMap(CurM)[keyFocus], symbol)
           /\ OnSide(BuildSpatialMap(CurM), keyFocus, symbol) # {}) =>
              /\ keyFocus' \in NextColumn(BuildSpatialMap(CurM), keyFocus, symbol)
              /\ \A k \in NextColumn(BuildSpatialMap(CurM), keyFocus, symbol) :
                     /\ Overlap(BuildSpatialMap(CurM), keyFocus, k)
                            <= Overlap(BuildSpatialMap(CurM), keyFocus, keyFocus')
                     /\ Overlap(BuildSpatialMap(CurM), keyFocus, k)
                            = Overlap(BuildSpatialMap(CurM), keyFocus, keyFocus')
                        => keyFocus' <= k
              /\ keyResult' = "EVENT_STOP"]_vars

C16_Witness ==
    /\ keySymbol = "KEY_Right"
    /\ keyFocusBefore \in DOMAIN children
    /\ keyFocus \in DOMAIN children
    /\ keyFocus # keyFocusBefore
    /\ ~FlaggedAt(BuildSpatialMap(CurM)[keyFocusBefore], "KEY_Right")
    /\ ~IsHorizontalTarget(BuildSpatialMap(CurM), keyFocusBefore, "KEY_Right",
                           keyFocus)

\* C17: Up or Down from an item that is not flagged on that side moves the
\* focus to an item whose centre lies strictly above or below the centre of
\* the current item and whose (5*dx)^2 + dy^2 is the least among those items;
\* the focus stays where it is only if there is no such item.
C17_VerticalTarget ==
    [][\A symbol \in {"KEY_Up", "KEY_Down"} :
          (/\ KeyStep(symbol)
           /\ keyFocus \in DOMAIN children
           /\ ~FlaggedAt(BuildSpatialMap(CurM)[keyFocus], symbol)) =>
              /\ keyResult' = "EVENT_STOP"
              /\ IF OnSide(BuildSpatialMap(CurM), keyFocus, symbol) = {}
                 THEN keyFocus' = keyFocus
                 ELSE /\ keyFocus' \in OnSide(BuildSpatialMap(CurM), keyFocus, symbol)
                      /\ \A k \in OnSide(BuildSpatialMap(CurM), keyFocus, symbol) :
                             (25 * CentreDx2(BuildSpatialMap(CurM), keyFocus, keyFocus')
                                 * CentreDx2(BuildSpatialMap(CurM), keyFocus, keyFocus'))
                             + (CentreDy2(BuildSpatialMap(CurM), keyFocus, keyFocus')
                                 * CentreDy2(BuildSpatialMap(CurM), keyFocus, keyFocus'))
                             <= (25 * CentreDx2(BuildSpatialMap(CurM), keyFocus, k)
                                    * CentreDx2(BuildSpatialMap(CurM), keyFocus, k))
                                + (CentreDy2(BuildSpatialMap(CurM), keyFocus, k)
                                    * CentreDy2(BuildSpatialMap(CurM), keyFocus, k))]_vars

\* Up has moved the focus to the item above in the same column although an
\* item of another column has its centre nearer in the plain distance
C17_Witness ==
    /\ keySymbol = "KEY_Up"
    /\ keyResult = "EVENT_STOP"
    /\ keyFocusBefore \in DOMAIN children
    /\ keyFocus \in DOMAIN children
    /\ keyFocus # keyFocusBefore
    /\ children[keyFocus].column = children[keyFocusBefore].column
    /\ \E k \in OnSide(BuildSpatialMap(CurM), keyFocusBefore, "KEY_Up") :
           (CentreDx2(BuildSpatialMap(CurM), keyFocusBefore, k)
               * CentreDx2(BuildSpatialMap(CurM), keyFocusBefore, k))
           + (CentreDy2(BuildSpatialMap(CurM), keyFocusBefore, k)
               * CentreDy2(BuildSpatialMap(CurM), keyFocusBefore, k))
           < CentreDy2(BuildSpatialMap(CurM), keyFocusBefore, keyFocus)
               * CentreDy2(BuildSpatialMap(CurM), keyFocusBefore, keyFocus)

\* Properties of the keys of the fixed grid

\* the step is _onGridKeyPress handling the key symbol with the focus on a
\* button of the grid
GridKeyStep(symbol) ==
    /\ gridKey' = symbol
    /\ gridFocusBefore' = gridFocus
    /\ gridFocus \in DOMAIN gridAllButtons
    /\ UNCHANGED <<gridAllButtons, renderSession>>

\* C18: with n buttons and the focus on the button of index i (button i + 1
\* of the model), Left moves the focus to i - 1 iff i > 0, Right to i + 1 iff
\* i < n - 1, Up to i - itemsPerRow iff i >= itemsPerRow, Down to
\* i + itemsPerRow iff i + itemsPerRow < n; the focus never lands outside
\* 0..n-1 of the grid, and a Down that cannot move is consumed with the focus
\* where it was.
C18_GridArrowKeys ==
    [][\A symbol \in ArrowKeys :
          GridKeyStep(symbol) =>
              LET n == Len(gridAllButtons)
                  i == gridFocus - 1
                  target ==
                      CASE symbol = "KEY_Left" -> i - 1
                        [] symbol = "KEY_Right" -> i + 1
                        [] symbol = "KEY_Up" -> i - itemsPerRow
                        [] OTHER -> i + itemsPerRow
                  allowed ==
                      CASE symbol = "KEY_Left" -> i > 0
                        [] symbol = "KEY_Right" -> i < n - 1
                        [] symbol = "KEY_Up" -> i >= itemsPerRow
                        [] OTHER -> i + itemsPerRow < n
              IN  /\ allowed => gridFocus' - 1 = target
                  /\ ~allowed => gridFocus' \in {gridFocus, SearchEntry}
                  /\ gridFocus' \in (1..n) \cup {SearchEntry}
                  /\ (symbol = "KEY_Down" /\ ~allowed) =>
                         gridFocus' = gridFocus /\ gridKeyResult' = "EVENT_STOP"]_vars

C18_Witness ==
    /\ gridKey = "KEY_Down"
    /\ gridKeyResult = "EVENT_STOP"
    /\ itemsPerRow = KaomojiItemsPerRow
    /\ Len(gridAllButtons) = GridLen
    /\ gridFocusBefore = GridLen - KaomojiItemsPerRow + 1
    /\ gridFocus = gridFocusBefore

\* C19 as stated: Up pressed with the focus on a button of the first row is
\* not consumed, the handler returns EVENT_PROPAGATE.
C19_UpFromFirstRowPropagates ==
    [][(GridKeyStep("KEY_Up") /\ gridFocus - 1 < itemsPerRow) =>
          gridKeyResult' = "EVENT_PROPAGATE"]_vars

\* what the code does instead: it hands the focus to the search entry itself
\* and consumes the event
UpFromFirstRowFocusesSearch ==
    [][(GridKeyStep("KEY_Up") /\ gridFocus - 1 < itemsPerRow) =>
          gridFocus' = SearchEntry /\ gridKeyResult' = "EVENT_STOP"]_vars

C19_Witness ==
    /\ gridKey = "KEY_Up"
    /\ gridFocusBefore \in 1..itemsPerRow
    /\ Len(gridAllButtons) = GridLen
    /\ gridFocus = SearchEntry
    /\ gridKeyResult = "EVENT_STOP"

\* C20 as stated: once the load has failed the viewer shows the load error for
\* good, and no load is started again.
C20_LoadErrorIsTerminal ==
    [][contentArea = "load-error" =>
          contentArea' = "load-error" /\ ~isLoading']_vars

\* what the code does: the error display stays until onSelected() runs
\* again, which starts the load afresh; nothing else leaves the error display
LoadErrorLeftOnlyByNewLoad ==
    [][(contentArea = "load-error" /\ contentArea' # "load-error") =>
          (isLoading' /\ contentArea' = "loading" /\ ~isContentLoaded')]_vars

C20_Witness ==
    /\ contentArea = "load-error"
    /\ ~isLoading
    /\ ~isContentLoaded
    /\ mainData = <<>>

\* Properties of the load

\* C21: whatever the order of the onSelected() calls, a file read is never
\* started while one is in flight or after a load has succeeded; once loaded
\* the dataset and the tabs stay as they are, and the category tabs are built
\* exactly once, by the load that succeeds.
C21_LoadedOnceNeverOverlapping ==
    [][/\ (isLoading \/ isContentLoaded) =>
              Count(trace', "load_contents_async") = 0
       /\ Count(trace', "load_contents_async") <= 1
       /\ isContentLoaded =>
              /\ Count(trace', "buildCategoryTabs") = 0
              /\ isContentLoaded'
              /\ mainData' = mainData
              /\ allDisplayableTabs' = allDisplayableTabs
       /\ (~isContentLoaded /\ isContentLoaded') =>
              Count(trace', "buildCategoryTabs") = 1
       /\ (~isContentLoaded /\ ~isContentLoaded') =>
              Count(trace', "buildCategoryTabs") = 0]_vars

\* onSelected() has been called on a loaded viewer and has done nothing
C21_Witness ==
    /\ isContentLoaded
    /\ ~isLoading
    /\ trace = <<>>
    /\ mainData = dataset
    /\ Len(allDisplayableTabs) > 1

\* onSelected() has been called while the load was in flight and has done
\* nothing
CalledWhileLoading ==
    /\ isLoading
    /\ ~isContentLoaded
    /\ trace = <<>>

\* Properties of the construction

\* C22 as stated: constructing a viewer on a config that lacks a required key
\* raises nothing and leaves the configuration-error message in the content
\* area; nothing is loaded or rendered on that instance afterwards.
C22_MisconfiguredShowsError ==
    ~configValid =>
        /\ Count(trace, "TypeError") = 0
        /\ contentArea = "config-error"
        /\ ~isLoading
        /\ ~isContentLoaded
        /\ renderSession = 0

\* what the code does: the constructor raises a TypeError and no message is
\* shown
C22_Witness ==
    /\ ~configValid
    /\ Ops(trace) = <<"TypeError">>
    /\ contentArea = "undefined"

\* the same constructor raises nothing, whatever else is in the config, when
\* no required key is missing
ValidConfigConstructs ==
    configValid => (Count(trace, "TypeError") = 0 /\ contentArea # "undefined")

\* Properties of destroy()

\* the viewer has been destroyed
ViewerDestroyed == configValid /\ ~onStage

\* C23 as stated, for the viewer: once destroy() has returned, no callback
\* scheduled before it does anything on the viewer or its children.
C23_NoCallbackActsAfterDestroy ==
    [][ViewerDestroyed =>
          /\ trace' = <<>>
          /\ UNCHANGED <<contentArea, gridAllButtons, renderSession,
                         checkedTabs, allDisplayableTabs, focusTimers>>]_vars

\* a chunk callback of the current session is pending on a destroyed viewer
C23_Witness ==
    /\ ViewerDestroyed
    /\ \E c \in idleChunks : c.session = renderSession

\* the timers are cancelled by destroy(): it leaves neither the debouncer's
\* timer nor a focus timer pending
TimersCancelledByDestroy ==
    [][(onStage /\ ~onStage') => (debounceTimer' = -1 /\ focusTimers' = 0)]_vars

\* the idle callbacks are not: a chunk callback that runs on a destroyed
\* viewer asks the viewer for its stage when its session is the current one
IdleChunkLeavesDestroyedViewerAlone ==
    [][(ViewerDestroyed /\ idleChunks' # idleChunks) =>
          Count(trace', "get_stage") = 0]_vars

\* the layout: destroy() leaves no width handler connected and no fallback
\* timeout scheduled
LayoutDestroyCancelsDeferred ==
    destroyed => (DOMAIN handlers = {} /\ DOMAIN timeouts = {})

\* Properties of the activation of a grid item

\* the steps of an activation
ActivationOps == {"addItem", "createSignalPayload", "emit"}

\* the steps of an activation in a trace, in the order they were done
ActivationSteps(tr) == SelectSeq(tr, LAMBDA e : e.op \in ActivationOps)

\* C24: a handler that records an item, builds a payload or emits
\* 'item-selected' does the three once each and in that order, for one and
\* the same item, which is the most recent item of the store when the signal
\* is emitted.
C24_RecordThenPayloadThenEmit ==
    [][ActivationSteps(trace') # <<>> =>
          /\ Ops(ActivationSteps(trace')) =
                 <<"addItem", "createSignalPayload", "emit">>
          /\ \A i \in 1..3 :
                 ActivationSteps(trace')[i].arg = ActivationSteps(trace')[1].arg
          /\ recents' # <<>>
          /\ <<Head(recents')>> = ActivationSteps(trace')[1].arg]_vars

\* an item of the Recents tab has been activated: the store's signal has
\* re-rendered the grid between the recording and the payload
C24_Witness ==
    /\ Ops(trace) = <<"addItem", "recents-changed", "get_stage",
                       "createSignalPayload", "emit">>
    /\ activeCategory = RECENTS_TAB_ID
    /\ currentSearchText = <<>>

\* Properties of _setActiveCategory

\* the step is a call of _setActiveCategory(id) from a tab's 'clicked'
\* handler
TabClicked(id) ==
    /\ trace' # <<>>
    /\ trace'[1].op = "setActiveCategory"
    /\ trace'[1].arg = id

\* what a render pass and the timers leave behind
Displayed ==
    <<renderSession, filteredData, gridAllButtons, contentArea, idleChunks>>

\* C25 as stated: _setActiveCategory(id) on the active category changes
\* nothing, whether or not a search is live.
C25_ActiveCategoryIsNoOp ==
    [][TabClicked(activeCategory) =>
          UNCHANGED <<currentSearchText, activeCategory, checkedTabs, Displayed,
                      focusTimers, setActiveCategoryTimeoutId, debounceTimer>>]_vars

\* C25 as the code has it: on the active category and with no search live
\* nothing changes; with a search live the search text is cleared and the
\* debouncer is triggered, and still nothing is rendered before the call
\* returns and the category, the checked tab and the focus timer are as they
\* were.
C25_ActiveCategoryClearsSearchOnly ==
    [][TabClicked(activeCategory) =>
          /\ UNCHANGED <<activeCategory, checkedTabs, Displayed, focusTimers,
                         setActiveCategoryTimeoutId>>
          /\ currentSearchText' = <<>>
          /\ IF currentSearchText = <<>>
             THEN /\ UNCHANGED <<debounceTimer, lastActiveTabBeforeSearch>>
                  /\ Len(trace') = 1
             ELSE /\ debounceTimer' = DebounceMs
                  /\ Count(trace', "trigger") = 1]_vars

\* the active tab has been clicked while a search was live
C25_Witness ==
    /\ Ops(trace) = <<"setActiveCategory", "trigger">>
    /\ trace[1].arg = activeCategory
    /\ currentSearchText = <<>>
    /\ debounceTimer = DebounceMs
    /\ contentArea = "grid"

\* the positions in the loaded dataset of the items of tab id: the store's
\* list for Recents, the items of the category otherwise
ItemsOfTab(id) ==
    IF id = RECENTS_TAB_ID THEN recents
    ELSE SelectSeq([i \in 1..Len(mainData) |-> i],
                   LAMBDA i : mainData[i].cat = id)

\* the grid shows the first chunk of list, every button made by session
ShowsFirstChunk(buttons, list, session) ==
    /\ Len(buttons) = Min(Len(list), itemsPerChunk)
    /\ \A k \in DOMAIN buttons :
           buttons[k].item = list[k] /\ buttons[k].session = session

\* C26: after _setActiveCategory(id) on a tab other than the active one, with
\* or without a search live: the search text is empty, id is the active
\* category and the one checked tab, a session that no pending callback holds
\* has been minted and shows id's items, and exactly one focus-restore timer
\* is pending.
C26_SwitchingCategory ==
    [][\A id \in Range(allDisplayableTabs) :
          (TabClicked(id) /\ id # activeCategory) =>
              /\ currentSearchText' = <<>>
              /\ activeCategory' = id
              /\ checkedTabs' = {id}
              /\ renderSession' # renderSession
              /\ \A c \in idleChunks : c.session # renderSession'
              /\ filteredData' = ItemsOfTab(id)
              /\ ShowsFirstChunk(gridAllButtons', ItemsOfTab(id), renderSession')
              /\ contentArea' = IF ItemsOfTab(id) = <<>> THEN "message" ELSE "grid"
              /\ focusTimers' = 1
              /\ setActiveCategoryTimeoutId' # 0]_vars

\* a tab other than Recents has been clicked while a search was live, and
\* shows its items
C26_Witness ==
    /\ Ops(trace) = <<"setActiveCategory", "trigger", "get_stage">>
    /\ trace[1].arg = activeCategory
    /\ activeCategory # RECENTS_TAB_ID
    /\ checkedTabs = {activeCategory}
    /\ focusTimers = 1
    /\ contentArea = "grid"

\* Properties of _onSearchTextChanged

\* C27: in every state of a live viewer and for every text of the entry,
\* _onSearchTextChanged renders nothing before it returns: no session is
\* minted and the grid is as it was.  A text whose trimmed, lower-cased form
\* is the current search text changes nothing and triggers nothing; any other
\* text triggers the debouncer exactly once.
C27_SearchEditOnlyTriggers ==
    onStage =>
        \A raw \in RawTexts :
            LET after == OnSearchTextChanged(Cur, raw)
            IN  IF Trim(ToLowerCase(raw)) = currentSearchText
                THEN after = Cur
                ELSE /\ Ops(after.trace) = <<"trigger">>
                     /\ after.debounceTimer = DebounceMs
                     /\ after.currentSearchText = Trim(ToLowerCase(raw))
                     /\ after.renderSession = renderSession
                     /\ after.filteredData = filteredData
                     /\ after.gridAllButtons = gridAllButtons
                     /\ after.contentArea = contentArea
                     /\ after.idleChunks = idleChunks

\* an edit has begun a search over a rendered grid and has only triggered the
\* debouncer
C27_Witness ==
    /\ Ops(trace) = <<"trigger">>
    /\ currentSearchText # <<>>
    /\ debounceTimer = DebounceMs
    /\ burst = 1
    /\ contentArea = "grid"
    /\ \A k \in DOMAIN gridAllButtons : gridAllButtons[k].session = renderSession

\* Properties of the 'recents-changed' handler

\* C28: when the store signals a change while Recents is the active category
\* and no search is live, a new session is minted and shows the store's list
\* as it is then; when it signals while another category is active or a
\* search is live, the session and what is shown are as they were.
C28_RecentsChangeRerendersRecents ==
    [][Count(trace', "recents-changed") > 0 =>
          IF activeCategory = RECENTS_TAB_ID /\ currentSearchText = <<>>
          THEN /\ renderSession' # renderSession
               /\ \A c \in idleChunks : c.session # renderSession'
               /\ filteredData' = recents'
               /\ ShowsFirstChunk(gridAllButtons', recents', renderSession')
               /\ contentArea' = "grid"
          ELSE UNCHANGED Displayed]_vars

\* the store has signalled a change while Recents was shown: the grid shows
\* the store's list in a new session
C28_Witness ==
    /\ Count(trace, "recents-changed") = 1
    /\ Count(trace, "get_stage") = 1
    /\ activeCategory = RECENTS_TAB_ID
    /\ currentSearchText = <<>>
    /\ filteredData = recents
    /\ recents # <<>>

\* the store has signalled a change while a category was shown
SignalledOutsideRecents ==
    /\ Count(trace, "recents-changed") = 1
    /\ activeCategory # RECENTS_TAB_ID
    /\ currentSearchText = <<>>

\* the store has signalled a change while a search was live
SignalledWhileSearching ==
    /\ Count(trace, "recents-changed") = 1
    /\ currentSearchText # <<>>

\* Properties of a falsy render result

\* the items of list the render function gives a button for, in order
Renderable(list) ==
    SelectSeq(list, LAMBDA i : RenderGridItemFn(mainData[i]))

\* C29 as stated, for the fixed grid: a falsy result of the render function
\* raises nothing and skips only its item; once every chunk of the current
\* session has run on a live viewer, the grid shows every other item of the
\* list, in order.
C29_FalsyResultSkipsOnlyThatItem ==
    /\ configValid => Count(trace, "TypeError") = 0
    /\ (isContentLoaded /\ onStage /\ renderSession # 0
          /\ \A c \in idleChunks : c.session # renderSession) =>
           /\ Len(gridAllButtons) = Len(Renderable(filteredData))
           /\ \A k \in DOMAIN gridAllButtons :
                  gridAllButtons[k].item = Renderable(filteredData)[k]

\* what the code does: the chunk raises at the item and leaves the items
\* after it unrendered and the content area empty
C29_Witness ==
    /\ Count(trace, "TypeError") = 1
    /\ isContentLoaded
    /\ filteredData = <<1, 2, 3>>
    /\ Len(gridAllButtons) = 1
    /\ contentArea = "empty"

\* the same failure inside the load: the first list shown holds the item, the
\* load ends in its catch block and the error message is shown
LoadEndsInErrorOnFalsyResult ==
    /\ Ops(trace) = <<"buildCategoryTabs", "setActiveCategory", "get_stage",
                      "TypeError">>
    /\ ~isContentLoaded
    /\ contentArea = "load-error"

\* the batches of a caller whose render function makes no widget for one kind
SkipKinds == { Sized(Num(100), Num(50)), Sized(Num(100), Num(200)), Unrendered }

SkipBatches ==
    UNION {[1..n -> SkipKinds] : n \in 1..MaxBatch}

AddSkipItemsAct == AddItemsFrom(SkipBatches)

NextSkip ==
    \/ AddSkipItemsAct
    \/ AllocateAct
    \/ ClearAct
    \/ DeferTimeoutAct

SpecSkip == InitPack /\ [][NextSkip]_vars

\* the masonry half of C29: a batch packs as the batch without the items the
\* render function made no widget for, which only _items keeps
MasonrySkipsFalsyResult ==
    \A its \in SkipBatches :
        IsValidWidth(CurM) =>
            LET all == AddItems(CurM, its)
                kept == AddItems(CurM, SelectSeq(its, RenderItemFn))
            IN  /\ all.children = kept.children
                /\ all.columnHeights = kept.columnHeights
                /\ all.height = kept.height
                /\ all.items = items \o its

\* a layout holding an item that was skipped between two that were placed
MasonrySkippedOne ==
    /\ Len(items) = 3
    /\ items[2] = Unrendered
    /\ Len(children) = 2
    /\ children[2].item = items[3]

\* the handler that led to n rendered nothing: same session, same buttons,
\* same list, same content area
NoGridFrom(n) ==
    /\ n.renderSession = renderSession
    /\ n.gridAllButtons = gridAllButtons
    /\ n.filteredData = filteredData
    /\ n.contentArea = contentArea

\* C30: while the dataset is not loaded (before the load completes, or after a
\* failure) the content area shows no grid, and none of rerenderGrid, a recents
\* change, a category selection, or a search edit followed by the debounce
\* callback mints a render session or puts items in the content area.
C30_NoGridUnlessLoaded ==
    ~isContentLoaded =>
        /\ contentArea \notin {"grid", "message"}
        /\ NoGridFrom(ApplyFiltersAndRenderGrid(Cur))
        /\ NoGridFrom(OnRecentsChanged(Cur))
        /\ \A id \in Range(allDisplayableTabs) :
               NoGridFrom(SetActiveCategory(Cur, id))
        /\ \A raw \in RawTexts :
               NoGridFrom(DebouncerCallback(OnSearchTextChanged(Cur, raw)))

\* a category was selected on a viewer showing the load error, and the error
\* message is still shown
C30_Witness ==
    /\ ~isContentLoaded
    /\ ~isLoading
    /\ contentArea = "load-error"
    /\ Ops(trace) = <<"setActiveCategory">>
    /\ activeCategory = trace[1].arg
    /\ activeCategory # RECENTS_TAB_ID

\* a search was typed on a viewer showing the load error, its debounce
\* callback ran, and the error message is still shown
SearchedWhileLoadError ==
    /\ ~isContentLoaded
    /\ contentArea = "load-error"
    /\ currentSearchText # <<>>
    /\ callbacksSinceTrigger > 0

----------------------------------------------------------------------------
(* Properties of the column-height vector *)

\* the heights a pack pass went through: those at each placement since the
\* last clear(), then the current ones
HeightsInOrder == Append(heightsAtPlacement, columnHeights)

\* C32: the column-height vector has as many entries as the configured column
\* count in every state (after construction, clear, addItems and re-layout),
\* and from one placement of a pack pass to the next no entry decreases.
C32_ColumnHeightVector ==
    /\ Len(columnHeights) = columns
    /\ \A k \in DOMAIN HeightsInOrder : Len(HeightsInOrder[k]) = columns
    /\ \A k \in 1..(Len(HeightsInOrder) - 1) :
           \A c \in 1..columns : HeightsInOrder[k][c] <= HeightsInOrder[k + 1][c]

\* a pack pass placed a second item into a column that already held one
C32_Witness ==
    /\ Len(heightsAtPlacement) >= 3
    /\ \E c \in 1..columns :
           /\ heightsAtPlacement[2][c] > 0
           /\ columnHeights[c] > heightsAtPlacement[Len(heightsAtPlacement)][c]
           /\ heightsAtPlacement[Len(heightsAtPlacement)][c] > 0

----------------------------------------------------------------------------
(* Properties of an abandoned render pass *)

\* C33: a chunk callback whose session has been superseded, or whose viewer is
\* no longer on a stage, is abandoned silently: it attaches no button,
\* schedules no callback, raises nothing and leaves the content area (and
\* every other field of the viewer) as it was.
C33_AbandonedChunkIsSilent ==
    \A c \in idleChunks :
        (c.session # renderSession \/ ~onStage) =>
            LET before == [Cur EXCEPT !.idleChunks = @ \ {c}]
                after == RenderGridChunk(before, c.session, c.startIndex)
            IN  /\ [after EXCEPT !.trace = <<>>] = before
                /\ Count(after.trace, "TypeError") = 0

\* the second chunk of a pass was dispatched on a destroyed viewer: the grid
\* keeps the first chunk's buttons and no callback is pending
C33_Witness ==
    /\ configValid
    /\ ~onStage
    /\ Len(filteredData) = BigLen
    /\ Len(gridAllButtons) = itemsPerChunk
    /\ idleChunks = {}
    /\ contentArea = "grid"

----------------------------------------------------------------------------
(* Progress of a render pass *)

\* the sessions a pass of the model can run under
Sessions == 1..(MaxIdle + 3)

\* the current pass has rendered every item of its list
PassComplete == Len(gridAllButtons) = Len(filteredData)

\* C36: with the idle callbacks dispatched fairly, a render pass on a live
\* viewer eventually holds a button for every item of its list, unless a newer
\* session supersedes it (or the viewer is destroyed); and a pass with items
\* left to render always has its next chunk pending.
C36_PassCompletesOrIsSuperseded ==
    /\ [](renderSession \in {0} \cup Sessions)
    /\ []((onStage /\ renderSession # 0 /\ ~PassComplete) => CurrentChunks # {})
    /\ \A n \in Sessions :
           (renderSession = n /\ onStage) ~>
               (PassComplete \/ renderSession # n \/ ~onStage)

\* a pass of three chunks completed after an earlier pass was superseded and
\* its callback abandoned
C36_Witness ==
    /\ onStage
    /\ staleRan
    /\ Len(filteredData) = BigLen
    /\ PassComplete
    /\ Len(chunkLog) = 3
    /\ idleChunks = {}

----------------------------------------------------------------------------
(* Properties of the navigation list *)

\* C37: in every state the navigation list holds only buttons made under the
\* current render session, its i-th entry is the button of the i-th item of
\* the current filtered list, and it is no longer than that list.
C37_NavigationListFollowsFilteredList ==
    /\ Len(gridAllButtons) <= Len(filteredData)
    /\ \A i \in DOMAIN gridAllButtons :
           /\ gridAllButtons[i].session = renderSession
           /\ gridAllButtons[i].item = filteredData[i]

\* the list of a search result, rendered after the callback of a superseded
\* pass over the longer category list was dispatched
C37_Witness ==
    /\ onStage
    /\ staleRan
    /\ currentSearchText # <<>>
    /\ Len(filteredData) = itemsPerChunk
    /\ Len(gridAllButtons) = itemsPerChunk
    /\ gridAllButtons[itemsPerChunk].item = filteredData[itemsPerChunk]

----------------------------------------------------------------------------
(* Properties of clear() on a layout with a deferred batch *)

\* C38 as stated: once clear() has been called, the callbacks that were pending
\* at the clear pack nothing when they run: the step in which they are
\* dispatched adds no item to the layout and places no widget.
C38_ClearedLayoutStaysEmpty ==
    [][(staleDeferred /\ pendingAllocationId # 0 /\ pendingAllocationId' = 0
          /\ ~destroyed') =>
           (items' = items /\ (children = <<>> => children' = <<>>))]_vars

\* clear() was called on a layout whose deferred batch is still pending
C38_Witness ==
    /\ staleDeferred
    /\ ~destroyed
    /\ pendingAllocationId # 0
    /\ pendingTimeoutId # 0
    /\ items = <<>>
    /\ children = <<>>

\* what clear() does leave: callbacks that run at a width too small to pack
\* add nothing
StaleCallbacksAtSmallWidthAddNothing ==
    [][(staleDeferred /\ pendingAllocationId # 0 /\ pendingAllocationId' = 0
          /\ ~IsValidWidth([width |-> width'])) =>
           (items' = <<>> /\ children' = <<>>)]_vars

\* the settings the indicator starts on: every tab enabled, two of them, none
TwoTabsEnabled == [t \in TabNames |-> t \in {"Emoji", "Kaomoji"}]

StartSettings == {AllTabsEnabled, TwoTabsEnabled, [t \in TabNames |-> FALSE]}

InitPrefs ==
    /\ InitViewer({<<>>}, {FALSE})
    /\ tracing = FALSE
    /\ InitMasonry(DefaultLayout)
    /\ InitShellWith(StartSettings)

SpecPrefs == InitPrefs /\ [][NextPrefs]_vars

InitIndicator ==
    /\ InitViewer({<<>>}, {FALSE})
    /\ tracing = FALSE
    /\ InitMasonry(DefaultLayout)
    /\ InitShell

SpecIndicator == InitIndicator /\ [][NextIndicator]_vars

InitTrigger ==
    /\ InitViewer({<<>>}, {FALSE})
    /\ tracing = FALSE
    /\ InitMasonry(DefaultLayout)
    /\ InitShell

SpecTrigger == InitTrigger /\ [][NextTrigger]_vars

----------------------------------------------------------------------------
\* The clear-recents trigger

\* C35: a run of the trigger's handler always ends with the trigger empty; a
\* run that finds it empty (as the run caused by the handler's own reset
\* does) clears nothing, writes nothing and causes no further notification;
\* so the runs done and still due never exceed two per write of a trigger
C35_TriggerIsResetAndResetIgnored ==
    /\ [][triggerRuns' = triggerRuns + 1 =>
            /\ clearRecentsTrigger' = ""
            /\ (clearRecentsTrigger = "" =>
                   /\ triggerSignals' = triggerSignals - 1
                   /\ stores' = stores)]_vars
    /\ [](triggerRuns + triggerSignals <= 2 * triggerWrites)

\* one trigger was written and handled, its reset was notified and ignored
C35_Witness ==
    /\ triggerWrites = 1
    /\ triggerRuns = 2
    /\ triggerSignals = 0
    /\ clearRecentsTrigger = ""
    /\ \E s \in Stores : ~stores[s]

----------------------------------------------------------------------------
\* The enabled tabs

EnabledTabs(settings) == {t \in TabNames : settings[t]}

\* C31: while exactly one tab is enabled its row, and only its row, is
\* insensitive; a switch flipped on a sensitive row never takes the last
\* enabled tab away; and an indicator that reads no enabled tab writes the
\* first tab's key and reports the first tab as the only enabled one
C31_AtLeastOneTabEnabled ==
    /\ [](Cardinality(EnabledTabs(tabSettings)) = 1 =>
            \A t \in TabNames : rowSensitive[t] = ~tabSettings[t])
    /\ [][(lastWriter' = "prefs" /\ tabWrites' = tabWrites + 1
           /\ EnabledTabs(tabSettings) # {}) =>
              EnabledTabs(tabSettings') # {}]_vars
    /\ []((~indicator.destroyed /\ EnabledTabs(tabSettings) = {}) =>
            /\ GetEnabledTabNames(CurI) = <<TAB_DEFINITIONS[1]>>
            /\ EnabledTabs(GetEnabledTabDefinitions(CurI).settings) =
                   {TAB_DEFINITIONS[1]})

\* a switch was flipped off and left one tab enabled, whose row is insensitive
C31_Witness ==
    /\ lastWriter = "prefs"
    /\ Cardinality(EnabledTabs(tabSettings)) = 1
    /\ \E t \in TabNames : tabSettings[t] /\ ~rowSensitive[t]

\* no tab was enabled when the indicator's handler ran: the first one is now
IndicatorReenabledFirstTab ==
    /\ lastWriter = "indicator"
    /\ tabWrites > 0
    /\ EnabledTabs(tabSettings) = {TAB_DEFINITIONS[1]}

\* every combination of the tab keys
AllTabSettings == [TabNames -> BOOLEAN]

\* C34: whatever the tab keys hold when _updateTabButtonsVisibility runs on
\* a live indicator, afterwards the active and the last-active tab are
\* enabled tabs, and a button is visible, reactive and focusable exactly
\* when its tab is enabled
C34_NamesAndButtonsFollowSettings ==
    ~indicator.destroyed =>
        \A s \in AllTabSettings :
            \A u \in {UpdateTabButtonsVisibility([CurI EXCEPT !.settings = s])} :
                /\ u.activeTabName \in EnabledTabs(u.settings)
                /\ u.lastActiveTabName \in EnabledTabs(u.settings)
                /\ \A t \in TabNames :
                      /\ u.tabButtons[t].visible = u.settings[t]
                      /\ u.tabButtons[t].reactive = u.settings[t]
                      /\ u.tabButtons[t].can_focus = u.settings[t]

\* the active tab was disabled while the menu was open, and the handler has
\* moved on to the first enabled tab
C34_Witness ==
    /\ ~indicator.destroyed
    /\ ~settingsChanged
    /\ lastWriter = "external"
    /\ ~tabSettings["Recently Used"]
    /\ indicator.menuOpen
    /\ indicator.activeTabName = "Emoji"
    /\ ~indicator.tabButtons["Recently Used"].visible

----------------------------------------------------------------------------
\* Tab loads that complete late

\* the actors of the given kinds that have not been destroyed
Live(i, kinds) ==
    {a \in DOMAIN i.actors :
        i.actors[a].kind \in kinds /\ ~i.actors[a].destroyed}

\* C39: a load during which another tab was selected never installs the
\* content actor it built (it destroys it instead); and once no load is
\* pending, the content in the content area, of which there is at most one,
\* is that of the tab selected last
C39_SupersededLoadNeverInstalls ==
    ~indicator.destroyed =>
        /\ ~indicator.supersededInstalled
        /\ (indicator.loads = {} /\ indicator.contentChild # 0
            /\ indicator.actors[indicator.contentChild].kind = "content") =>
               indicator.actors[indicator.contentChild].tab =
                   indicator.activeTabName

\* a load that another selection had superseded installed its content, and
\* a content actor that is not installed was never destroyed
C39_Witness ==
    /\ ~indicator.destroyed
    /\ indicator.supersededInstalled
    /\ indicator.loads = {}
    /\ Live(indicator, {"content"}) \ {indicator.contentChild} # {}

\* C40: once the indicator is destroyed, no step installs anything in the
\* content area or sets a current actor, none leaves a timer or idle
\* callback pending, none calls into the content area that is gone, and
\* none leaves behind an actor it created
C40_NothingRunsAfterDestroy ==
    [][indicator.destroyed =>
          /\ indicator'.contentChild = 0
          /\ indicator'.currentTabActor = 0
          /\ indicator'.loadingIndicatorTimeout = <<>>
          /\ ~indicator'.selectTabTimeout
          /\ ~indicator'.nullAreaUsed
          /\ Cardinality(Live(indicator', {"content", "partial"})) <=
                 Cardinality(Live(indicator, {"content", "partial"}))]_vars

\* a load completed after destroy(): it called set_child on the content
\* area that destroy() had set to null, and its content actor is left alive
C40_Witness ==
    /\ indicator.destroyed
    /\ indicator.nullAreaUsed
    /\ Live(indicator, {"content"}) # {}

\* a viewer tab's load completed after destroy(): its constructor threw on
\* the null extension, leaving the actor it had created
ViewerTabBuiltAfterDestroy ==
    /\ indicator.destroyed
    /\ \E a \in Live(indicator, {"partial"}) :
           indicator.actors[a].tab \in ViewerTabs

\* what destroy() does give: its timers never run afterwards and nothing is
\* installed or made current afterwards
DestroyCancelsTimers ==
    indicator.destroyed =>
        /\ indicator.loadingIndicatorTimeout = <<>>
        /\ ~indicator.selectTabTimeout
        /\ indicator.contentChild = 0
        /\ indicator.currentTabActor = 0

============================================================================
